---- MODULE Spec2Model ----
(***************************************************************************)
(* Geometric consensus, partition detection and dual recovery              *)
(* (bthornemail/rfcXXXX, phase1-geometric-consensus).                      *)
(*                                                                         *)
(* The engine is a set of synchronous pure operations.  Each action below  *)
(* is one call of a public operation: `call` records the operation and its *)
(* arguments, `ret` what the call produced.  A JavaScript exception that   *)
(* leaves the operation is the result [threw |-> TRUE, error |-> message]. *)
(*                                                                         *)
(* Numbers: thresholds are JavaScript doubles.  They are kept here as      *)
(* exact fractions [n, d]; for every catalogue threshold, every dual-      *)
(* mapped threshold and every count below 40 the double computation        *)
(* Math.ceil(count * threshold) equals the exact ceiling, so Ceil is the   *)
(* value the code computes.                                                *)
(*                                                                         *)
(* certificateId and timestamp (Date.now, Math.random) are left out of     *)
(* certificates; proof narratives are abridged to the parts that vary.     *)
(***************************************************************************)
EXTENDS Integers, Sequences, FiniteSets, TLC

VARIABLES
    call,            \* the call of a public operation in progress: its name and arguments
    ret,             \* what that call returned or threw
    earlier,         \* an earlier call on the same GeometricConsensus instance, with its result
    now,             \* the clock that Date.now() and new Date() read
    consensusState   \* UDPGeometricServer.consensusState: the stored proposals and votes

vars == <<call, ret, earlier, now, consensusState>>

\* what a single call of a stateless operation leaves alone
serverVars == <<now, consensusState>>

(***************************************************************************)
(* Bounds                                                                  *)
(***************************************************************************)
MaxVotes == 4

MaxPieces == 2

\* vertices of a graph handed to the Betti calculator
MaxGraphVertices == 3

\* edges of such a graph
MaxEdges == 3

\* largest piece count handed to decomposeGeometricType: one more than the
\* largest key of any decomposition table
MaxPartitionCount == 25

\* largest vote count handed to inferGeometricType: one more than the largest
\* count of its table
MaxVertexCount == 121

\* largest Betti number handed to detectPartition and countPartitions
MaxBetti == 3

\* votes of a list handed to one of two successive verifyConsensus calls
MaxCallVotes == 2

\* votes the server receives for one proposal
MaxServerVotes == 3

\* piece certificates handed to createRecoveryPlan: one more than the largest
\* piece count a strategy is selected by
MaxPlanPieces == 9

(***************************************************************************)
(* Fractions                                                               *)
(***************************************************************************)
Frac(n, d) == [n |-> n, d |-> d]

FracEq(a, b) == a.n * b.d = b.n * a.d

FracLeq(a, b) == a.n * b.d <= b.n * a.d

FracMul(a, b) == [n |-> a.n * b.n, d |-> a.d * b.d]

\* Math.max(0, Math.min(1, x))
Clamp01(x) == IF FracLeq(x, Frac(0, 1)) THEN Frac(0, 1)
              ELSE IF FracLeq(Frac(1, 1), x) THEN Frac(1, 1) ELSE x

\* Math.ceil(count * x) for count >= 0 and x >= 0
Ceil(count, x) == (count * x.n + x.d - 1) \div x.d

(***************************************************************************)
(* geometric-types: the shape catalogue                                    *)
(***************************************************************************)
\* value of the optional field `dual` when the entry does not set it
NoDual == "undefined"

\* mutant: the edge and face counts change places
Shape_facesForEdges(type, v, e, f, thr, dual, selfDual, dim, ctx) ==
    [type |-> type, vertices |-> v, edges |-> f, faces |-> e,
     threshold |-> Frac(thr, 1000), dual |-> dual, isSelfDual |-> selfDual,
     dimension |-> dim, context |-> ctx]

Shape(type, v, e, f, thr, dual, selfDual, dim, ctx) ==
    [type |-> type, vertices |-> v, edges |-> e, faces |-> f,
     threshold |-> Frac(thr, 1000), dual |-> dual, isSelfDual |-> selfDual,
     dimension |-> dim, context |-> ctx]

GEOMETRIC_SHAPES ==
    [POINT |-> Shape("POINT", 1, 0, 0, 1000, NoDual, TRUE, 0, "local"),
     LINE |-> Shape("LINE", 2, 1, 0, 1000, NoDual, TRUE, 1, "local"),
     TRIANGLE |-> Shape("TRIANGLE", 3, 3, 1, 1000, NoDual, TRUE, 2, "local"),
     SQUARE |-> Shape("SQUARE", 4, 4, 1, 750, "SQUARE", TRUE, 2, "local"),
     TETRAHEDRON |-> Shape("TETRAHEDRON", 4, 6, 4, 1000, "TETRAHEDRON", TRUE, 3, "local"),
     CUBE |-> Shape("CUBE", 8, 12, 6, 500, "OCTAHEDRON", FALSE, 3, "local"),
     OCTAHEDRON |-> Shape("OCTAHEDRON", 6, 12, 8, 833, "CUBE", FALSE, 3, "local"),
     DODECAHEDRON |-> Shape("DODECAHEDRON", 20, 30, 12, 600, "ICOSAHEDRON", FALSE, 3, "local"),
     ICOSAHEDRON |-> Shape("ICOSAHEDRON", 12, 30, 20, 750, "DODECAHEDRON", FALSE, 3, "local"),
     FIVE_CELL |-> Shape("FIVE_CELL", 5, 10, 10, 1000, "FIVE_CELL", TRUE, 4, "federation"),
     EIGHT_CELL |-> Shape("EIGHT_CELL", 16, 32, 24, 500, "SIXTEEN_CELL", FALSE, 4, "federation"),
     SIXTEEN_CELL |-> Shape("SIXTEEN_CELL", 8, 24, 32, 750, "EIGHT_CELL", FALSE, 4, "federation"),
     TWENTY_FOUR_CELL |-> Shape("TWENTY_FOUR_CELL", 24, 96, 96, 833, "TWENTY_FOUR_CELL", TRUE, 4, "federation"),
     SIX_HUNDRED_CELL |-> Shape("SIX_HUNDRED_CELL", 120, 720, 1200, 600, "SIX_HUNDRED_CELL", FALSE, 4, "federation"),
     TRUNCATED_TETRAHEDRON |-> Shape("TRUNCATED_TETRAHEDRON", 12, 18, 8, 1000, NoDual, FALSE, 3, "global"),
     CUBOCTAHEDRON |-> Shape("CUBOCTAHEDRON", 12, 24, 14, 833, NoDual, FALSE, 3, "global"),
     TRUNCATED_CUBE |-> Shape("TRUNCATED_CUBE", 24, 36, 14, 500, NoDual, FALSE, 3, "global"),
     TRUNCATED_OCTAHEDRON |-> Shape("TRUNCATED_OCTAHEDRON", 24, 36, 14, 750, NoDual, FALSE, 3, "global"),
     RHOMBICUBOCTAHEDRON |-> Shape("RHOMBICUBOCTAHEDRON", 24, 48, 26, 625, NoDual, FALSE, 3, "global"),
     TRUNCATED_CUBOCTAHEDRON |-> Shape("TRUNCATED_CUBOCTAHEDRON", 48, 72, 26, 500, NoDual, FALSE, 3, "global"),
     SNUB_CUBE |-> Shape("SNUB_CUBE", 24, 60, 38, 750, NoDual, FALSE, 3, "global"),
     ICOSIDODECAHEDRON |-> Shape("ICOSIDODECAHEDRON", 30, 60, 32, 800, NoDual, FALSE, 3, "global"),
     TRUNCATED_DODECAHEDRON |-> Shape("TRUNCATED_DODECAHEDRON", 60, 90, 32, 500, NoDual, FALSE, 3, "global"),
     TRUNCATED_ICOSAHEDRON |-> Shape("TRUNCATED_ICOSAHEDRON", 60, 90, 32, 750, NoDual, FALSE, 3, "global"),
     RHOMBICOSIDODECAHEDRON |-> Shape("RHOMBICOSIDODECAHEDRON", 60, 120, 62, 600, NoDual, FALSE, 3, "global"),
     TRUNCATED_ICOSIDODECAHEDRON |-> Shape("TRUNCATED_ICOSIDODECAHEDRON", 120, 180, 62, 500, NoDual, FALSE, 3, "global"),
     SNUB_DODECAHEDRON |-> Shape("SNUB_DODECAHEDRON", 60, 150, 92, 750, NoDual, FALSE, 3, "global")]

GeometricType == DOMAIN GEOMETRIC_SHAPES

\* a shape identifier that is not a member of the GeometricType enum
UnknownTypes == {"HEXAGON"}

AnyType == GeometricType \cup UnknownTypes

\* results of a call: a returned value, or an exception that left the call
Return(v) == [threw |-> FALSE, value |-> v]

Throw(msg) == [threw |-> TRUE, error |-> msg]

getGeometricShape(type) ==
    IF type \in GeometricType THEN Return(GEOMETRIC_SHAPES[type])
    ELSE Throw("Unknown geometric type: " \o type)

\* mutant: Math.floor in place of Math.ceil
calculateRequiredAgreement_floor(shape) ==
    (shape.vertices * shape.threshold.n) \div shape.threshold.d

calculateRequiredAgreement(shape) == Ceil(shape.vertices, shape.threshold)

isValidForConsensus(shape, agreesCount) ==
    agreesCount >= calculateRequiredAgreement(shape)

\* String.prototype.toUpperCase on the three context names
toUpperCase == [local |-> "LOCAL", federation |-> "FEDERATION", global |-> "GLOBAL"]

getConsensusKeyword(shape) ==
    IF FracLeq(Frac(1, 1), shape.threshold) THEN "MUST_" \o toUpperCase[shape.context]
    ELSE IF FracLeq(Frac(8, 10), shape.threshold) THEN "SHOULD_" \o toUpperCase[shape.context]
    ELSE "MAY_" \o toUpperCase[shape.context]

\* null when the shape is not self-dual and declares no dual
\* mutant: a shape without a dual stands in as its own dual
getDual_selfFallback(shape) ==
    IF shape.isSelfDual THEN Return([null |-> FALSE, shape |-> shape])
    ELSE IF shape.dual # NoDual
         THEN LET d == getGeometricShape(shape.dual)
              IN  IF d.threw THEN d ELSE Return([null |-> FALSE, shape |-> d.value])
         ELSE Return([null |-> FALSE, shape |-> shape])

getDual(shape) ==
    IF shape.isSelfDual THEN Return([null |-> FALSE, shape |-> shape])
    ELSE IF shape.dual # NoDual
         THEN LET d == getGeometricShape(shape.dual)
              IN  IF d.threw THEN d ELSE Return([null |-> FALSE, shape |-> d.value])
         ELSE Return([null |-> TRUE])

(***************************************************************************)
(* betti-numbers: BettiCalculator                                          *)
(* A vertex is its id; an edge is [from |-> id, to |-> id].  Indices are   *)
(* 1-based here, 0-based in the source.                                    *)
(***************************************************************************)
\* vertexIndex.get(id): Map.set in list order, so a repeated id keeps the last index
vertexIndex(vertices, id) ==
    LET hits == {i \in 1..Len(vertices) : vertices[i] = id}
    IN  IF hits = {} THEN 0 ELSE CHOOSE i \in hits : \A j \in hits : j <= i

\* the set of <<row, column>> cells of the matrix holding 1
\* mutant: only matrix[from][to] is set
buildAdjacencyMatrix_directed(vertices, edges) ==
    UNION {LET fromIndex == vertexIndex(vertices, edges[k].from)
               toIndex == vertexIndex(vertices, edges[k].to)
           IN  IF fromIndex # 0 /\ toIndex # 0
               THEN {<<fromIndex, toIndex>>}
               ELSE {} : k \in 1..Len(edges)}

buildAdjacencyMatrix(vertices, edges) ==
    UNION {LET fromIndex == vertexIndex(vertices, edges[k].from)
               toIndex == vertexIndex(vertices, edges[k].to)
           IN  IF fromIndex # 0 /\ toIndex # 0
               THEN {<<fromIndex, toIndex>>, <<toIndex, fromIndex>>}
               ELSE {} : k \in 1..Len(edges)}

RECURSIVE dfs(_, _, _, _), dfsLoop(_, _, _, _, _)
\* returns the visited set after the call
dfs(vertex, adjacency, n, visited) ==
    dfsLoop(vertex, 1, adjacency, n, visited \cup {vertex})

dfsLoop(vertex, i, adjacency, n, visited) ==
    IF i > n THEN visited
    ELSE dfsLoop(vertex, i + 1, adjacency, n,
                 IF <<vertex, i>> \in adjacency /\ i \notin visited
                 THEN dfs(i, adjacency, n, visited)
                 ELSE visited)

RECURSIVE componentsLoop(_, _, _, _, _)
componentsLoop(i, adjacency, n, visited, components) ==
    IF i > n THEN components
    ELSE IF i \notin visited
         THEN componentsLoop(i + 1, adjacency, n, dfs(i, adjacency, n, visited), components + 1)
         ELSE componentsLoop(i + 1, adjacency, n, visited, components)

calculateConnectedComponents(vertices, adjacency) ==
    componentsLoop(1, adjacency, Len(vertices), {}, 0)

Max(a, b) == IF a >= b THEN a ELSE b

\* mutant: the graph is taken to be connected
calculateCycles_connected(vertices, edges) ==
    Max(0, Len(edges) - Len(vertices) + 1)

calculateCycles(vertices, edges) ==
    LET V == Len(vertices)
        E == Len(edges)
        C == calculateConnectedComponents(vertices, buildAdjacencyMatrix(vertices, edges))
    IN  Max(0, E - V + C)

calculateVoids(vertices, edges) == 0

calculateBettiNumbers(vertices, edges) ==
    IF Len(vertices) = 0 THEN [beta_0 |-> 0, beta_1 |-> 0, beta_2 |-> 0]
    ELSE [beta_0 |-> calculateConnectedComponents(vertices, buildAdjacencyMatrix(vertices, edges)),
          beta_1 |-> calculateCycles(vertices, edges),
          beta_2 |-> calculateVoids(vertices, edges)]

detectPartition(betti) == betti.beta_0 > 1

countPartitions(betti) == betti.beta_0

Abs(x) == IF x < 0 THEN -x ELSE x

verifyBettiProperties(betti, vertices, edges) ==
    IF betti.beta_0 < 0 \/ betti.beta_1 < 0 \/ betti.beta_2 < 0 THEN FALSE
    ELSE IF betti.beta_0 > Len(vertices) THEN FALSE
    ELSE IF betti.beta_0 = 1
              /\ Abs(betti.beta_1 - Max(0, Len(edges) - Len(vertices) + 1)) > 1
         THEN FALSE
    ELSE TRUE

(***************************************************************************)
(* geometric-consensus: GeometricConsensus                                 *)
(* A DecisionVertex is [id |-> identifier, agrees |-> BOOLEAN].            *)
(***************************************************************************)
convertToVertices(criteria) == [i \in 1..Len(criteria) |-> criteria[i].id]

RECURSIVE edgesFrom(_, _, _)
\* the double loop of buildConsensusEdges, from position (i, j) onwards
edgesFrom(criteria, i, j) ==
    IF i > Len(criteria) THEN <<>>
    ELSE IF j > Len(criteria) THEN edgesFrom(criteria, i + 1, i + 2)
    ELSE IF criteria[i].agrees = criteria[j].agrees
         THEN <<[from |-> criteria[i].id, to |-> criteria[j].id]>>
              \o edgesFrom(criteria, i, j + 1)
         ELSE edgesFrom(criteria, i, j + 1)

\* mutant: the outer loop starts one vote too late
buildConsensusEdges_skipFirst(criteria) == edgesFrom(criteria, 2, 3)

buildConsensusEdges(criteria) == edgesFrom(criteria, 1, 2)

isAgree(v) == v.agrees

RECURSIVE countAgrees_weighted(_)
\* mutant: the agreeing votes are summed by weight, a missing weight counting 1
countAgrees_weighted(criteria) ==
    IF criteria = <<>> THEN 0
    ELSE (IF ~criteria[1].agrees THEN 0
          ELSE IF "weight" \in DOMAIN criteria[1] THEN criteria[1].weight
          ELSE 1)
         + countAgrees_weighted(Tail(criteria))

\* criteria.filter(v => v.agrees).length
countAgrees(criteria) == Len(SelectSeq(criteria, isAgree))

generateMathematicalProof(shape, agreesCount, requiredCount, valid) ==
    "Mathematical Proof for " \o getConsensusKeyword(shape) \o " Consensus: "
    \o shape.type \o " " \o ToString(agreesCount) \o " >= " \o ToString(requiredCount)
    \o (IF valid THEN " CONSENSUS ACHIEVED" ELSE " CONSENSUS FAILED")

createConsensusCertificate(criteria, shape) ==
    LET agreesCount == countAgrees(criteria)
        requiredCount == calculateRequiredAgreement(shape)
        valid == isValidForConsensus(shape, agreesCount)
        bettiNumbers == calculateBettiNumbers(convertToVertices(criteria),
                                              buildConsensusEdges(criteria))
    IN  [geometricType |-> shape.type,
         shape |-> shape,
         vertices |-> criteria,
         agreesCount |-> agreesCount,
         requiredCount |-> requiredCount,
         thresholdPercentage |-> shape.threshold,
         valid |-> valid,
         proof |-> generateMathematicalProof(shape, agreesCount, requiredCount, valid),
         hasBetti |-> TRUE,
         bettiNumbers |-> bettiNumbers,
         partitionInfo |-> [isPartitioned |-> detectPartition(bettiNumbers),
                            partitionCount |-> countPartitions(bettiNumbers)]]

\* GeometricConsensus.createErrorCertificate: the shape is looked up again
consensusErrorCertificate(criteria, geometricType, message) ==
    LET shape == getGeometricShape(geometricType)
    IN  IF shape.threw THEN shape
        ELSE Return([geometricType |-> geometricType,
                     shape |-> shape.value,
                     vertices |-> criteria,
                     agreesCount |-> 0,
                     requiredCount |-> 0,
                     thresholdPercentage |-> Frac(0, 1),
                     valid |-> FALSE,
                     proof |-> "Error in consensus verification: " \o message,
                     hasBetti |-> FALSE])

verifyConsensus(criteria, geometricType) ==
    LET shape == getGeometricShape(geometricType)
    IN  IF ~shape.threw
        THEN LET certificate == createConsensusCertificate(criteria, shape.value)
             IN  Return([certificate |-> certificate,
                         success |-> certificate.valid,
                         message |-> IF certificate.valid THEN "Consensus achieved"
                                     ELSE "Consensus failed"])
        ELSE \* catch (error)
             LET certificate == consensusErrorCertificate(criteria, geometricType, shape.error)
             IN  IF certificate.threw THEN certificate
                 ELSE Return([certificate |-> certificate.value,
                              success |-> FALSE,
                              message |-> "Consensus verification failed: " \o shape.error])

\* generateCertificateId: `cert-${Date.now()}-${random}`
generateCertificateId(timestamp, random) == <<"cert", timestamp, random>>

\* mutant: the issuance time is written into the proof text as well
stampCertificate_proof(certificate, timestamp, random) ==
    [certificate EXCEPT !.proof = @ \o " at " \o ToString(timestamp)]
    @@ [certificateId |-> generateCertificateId(timestamp, random),
        timestamp |-> timestamp]

\* the two fields of a certificate that are drawn from the environment: the
\* clock reading and the random suffix of the identifier
stampCertificate(certificate, timestamp, random) ==
    certificate @@ [certificateId |-> generateCertificateId(timestamp, random),
                    timestamp |-> timestamp]

\* verifyConsensus together with the clock reading and the random draw its
\* certificate carries
verifyConsensusStamped(criteria, geometricType, timestamp, random) ==
    LET result == verifyConsensus(criteria, geometricType)
    IN  IF result.threw THEN result
        ELSE Return([result.value EXCEPT
                        !.certificate = stampCertificate(@, timestamp, random)])

\* an absent field reads as undefined
undefinedField(certificate, field) == field \notin DOMAIN certificate

\* mutant: the validity flag is not recomputed
validateCertificate_countsOnly(certificate) ==
    IF \/ undefinedField(certificate, "certificateId")
       \/ undefinedField(certificate, "geometricType")
       \/ undefinedField(certificate, "vertices")
    THEN Return(FALSE)
    ELSE IF countAgrees(certificate.vertices) # certificate.agreesCount THEN Return(FALSE)
    ELSE IF undefinedField(certificate, "shape") THEN Return(FALSE)
    ELSE IF calculateRequiredAgreement(certificate.shape) # certificate.requiredCount
         THEN Return(FALSE)
    ELSE Return(TRUE)

\* reading a field of an undefined shape throws inside the try block, and the
\* catch block returns false
validateCertificate(certificate) ==
    IF \/ undefinedField(certificate, "certificateId")
       \/ undefinedField(certificate, "geometricType")
       \/ undefinedField(certificate, "vertices")
    THEN Return(FALSE)
    ELSE IF countAgrees(certificate.vertices) # certificate.agreesCount THEN Return(FALSE)
    ELSE IF undefinedField(certificate, "shape") THEN Return(FALSE)
    ELSE IF calculateRequiredAgreement(certificate.shape) # certificate.requiredCount
         THEN Return(FALSE)
    ELSE IF isValidForConsensus(certificate.shape, certificate.agreesCount) # certificate.valid
         THEN Return(FALSE)
    ELSE Return(TRUE)

mustLocal(criteria) == verifyConsensus(criteria, "TETRAHEDRON")

shouldLocal(criteria) == verifyConsensus(criteria, "OCTAHEDRON")

\* mutant: bound to the dual of its shape
mayLocal_dualShape(criteria) == verifyConsensus(criteria, "OCTAHEDRON")

mayLocal(criteria) == verifyConsensus(criteria, "CUBE")

mustFederation(criteria) == verifyConsensus(criteria, "FIVE_CELL")

shouldFederation(criteria) == verifyConsensus(criteria, "TWENTY_FOUR_CELL")

mayFederation(criteria) == verifyConsensus(criteria, "EIGHT_CELL")

mustGlobal(criteria) == verifyConsensus(criteria, "TRUNCATED_TETRAHEDRON")

shouldGlobal(criteria) == verifyConsensus(criteria, "CUBOCTAHEDRON")

mayGlobal(criteria) == verifyConsensus(criteria, "TRUNCATED_CUBE")

(***************************************************************************)
(* partition-detection: PartitionDetector                                  *)
(***************************************************************************)
\* decompositionMap: per original type, the <<partition count, type>> entries
\* in the order Object.entries yields them (ascending integer keys)
decompositionMap ==
    [CUBE |-> <<<<2, "TETRAHEDRON">>, <<4, "TRIANGLE">>, <<8, "POINT">>>>,
     OCTAHEDRON |-> <<<<2, "TRIANGLE">>, <<3, "LINE">>, <<6, "POINT">>>>,
     TETRAHEDRON |-> <<<<2, "LINE">>, <<4, "POINT">>>>,
     TWENTY_FOUR_CELL |-> <<<<2, "DODECAHEDRON">>, <<3, "OCTAHEDRON">>, <<4, "TETRAHEDRON">>,
                            <<6, "SQUARE">>, <<8, "TRIANGLE">>, <<12, "LINE">>, <<24, "POINT">>>>,
     FIVE_CELL |-> <<<<2, "TRIANGLE">>, <<5, "POINT">>>>,
     DODECAHEDRON |-> <<<<2, "ICOSAHEDRON">>, <<4, "OCTAHEDRON">>, <<5, "TETRAHEDRON">>,
                        <<10, "TRIANGLE">>, <<20, "POINT">>>>,
     ICOSAHEDRON |-> <<<<2, "DODECAHEDRON">>, <<3, "OCTAHEDRON">>, <<4, "TETRAHEDRON">>,
                       <<6, "TRIANGLE">>, <<12, "POINT">>>>,
     POINT |-> <<<<1, "POINT">>>>,
     LINE |-> <<<<1, "LINE">>, <<2, "POINT">>>>,
     TRIANGLE |-> <<<<1, "TRIANGLE">>, <<2, "LINE">>, <<3, "POINT">>>>,
     SQUARE |-> <<<<1, "SQUARE">>, <<2, "LINE">>, <<4, "POINT">>>>,
     EIGHT_CELL |-> <<<<1, "EIGHT_CELL">>, <<2, "CUBE">>, <<4, "TETRAHEDRON">>, <<8, "POINT">>>>,
     SIXTEEN_CELL |-> <<<<1, "SIXTEEN_CELL">>, <<2, "OCTAHEDRON">>, <<4, "TETRAHEDRON">>,
                        <<8, "TRIANGLE">>, <<16, "POINT">>>>,
     SIX_HUNDRED_CELL |-> <<<<1, "SIX_HUNDRED_CELL">>, <<2, "ICOSAHEDRON">>, <<3, "DODECAHEDRON">>,
                            <<4, "OCTAHEDRON">>, <<5, "TETRAHEDRON">>, <<6, "TRIANGLE">>,
                            <<10, "LINE">>, <<20, "POINT">>>>,
     TRUNCATED_TETRAHEDRON |-> <<<<1, "TRUNCATED_TETRAHEDRON">>, <<2, "TRIANGLE">>, <<4, "POINT">>>>,
     CUBOCTAHEDRON |-> <<<<1, "CUBOCTAHEDRON">>, <<2, "TETRAHEDRON">>, <<3, "TRIANGLE">>, <<6, "POINT">>>>,
     TRUNCATED_CUBE |-> <<<<1, "TRUNCATED_CUBE">>, <<2, "CUBE">>, <<4, "TETRAHEDRON">>, <<8, "POINT">>>>,
     TRUNCATED_OCTAHEDRON |-> <<<<1, "TRUNCATED_OCTAHEDRON">>, <<2, "OCTAHEDRON">>,
                                <<3, "TETRAHEDRON">>, <<6, "POINT">>>>,
     RHOMBICUBOCTAHEDRON |-> <<<<1, "RHOMBICUBOCTAHEDRON">>, <<2, "CUBE">>, <<4, "TETRAHEDRON">>,
                               <<8, "POINT">>>>,
     TRUNCATED_CUBOCTAHEDRON |-> <<<<1, "TRUNCATED_CUBOCTAHEDRON">>, <<2, "CUBOCTAHEDRON">>,
                                   <<3, "TETRAHEDRON">>, <<6, "POINT">>>>,
     SNUB_CUBE |-> <<<<1, "SNUB_CUBE">>, <<2, "CUBE">>, <<4, "TETRAHEDRON">>, <<8, "POINT">>>>,
     ICOSIDODECAHEDRON |-> <<<<1, "ICOSIDODECAHEDRON">>, <<2, "DODECAHEDRON">>, <<3, "ICOSAHEDRON">>,
                             <<6, "TETRAHEDRON">>, <<12, "POINT">>>>,
     TRUNCATED_DODECAHEDRON |-> <<<<1, "TRUNCATED_DODECAHEDRON">>, <<2, "DODECAHEDRON">>,
                                  <<3, "ICOSAHEDRON">>, <<6, "TETRAHEDRON">>, <<12, "POINT">>>>,
     TRUNCATED_ICOSAHEDRON |-> <<<<1, "TRUNCATED_ICOSAHEDRON">>, <<2, "ICOSAHEDRON">>,
                                 <<3, "DODECAHEDRON">>, <<6, "TETRAHEDRON">>, <<12, "POINT">>>>,
     RHOMBICOSIDODECAHEDRON |-> <<<<1, "RHOMBICOSIDODECAHEDRON">>, <<2, "DODECAHEDRON">>,
                                  <<3, "ICOSAHEDRON">>, <<6, "TETRAHEDRON">>, <<12, "POINT">>>>,
     TRUNCATED_ICOSIDODECAHEDRON |-> <<<<1, "TRUNCATED_ICOSIDODECAHEDRON">>, <<2, "ICOSAHEDRON">>,
                                       <<3, "DODECAHEDRON">>, <<6, "TETRAHEDRON">>, <<12, "POINT">>>>,
     SNUB_DODECAHEDRON |-> <<<<1, "SNUB_DODECAHEDRON">>, <<2, "DODECAHEDRON">>, <<3, "ICOSAHEDRON">>,
                             <<6, "TETRAHEDRON">>, <<12, "POINT">>>>]

getDefaultDecomposition(original, partitionCount) ==
    LET shape == getGeometricShape(original)
    IN  IF shape.threw THEN shape
        ELSE LET verticesPerPartition == shape.value.vertices \div partitionCount
             IN  Return(IF verticesPerPartition >= 20 THEN "DODECAHEDRON"
                        ELSE IF verticesPerPartition >= 12 THEN "ICOSAHEDRON"
                        ELSE IF verticesPerPartition >= 8 THEN "CUBE"
                        ELSE IF verticesPerPartition >= 6 THEN "OCTAHEDRON"
                        ELSE IF verticesPerPartition >= 4 THEN "TETRAHEDRON"
                        ELSE IF verticesPerPartition >= 3 THEN "TRIANGLE"
                        ELSE IF verticesPerPartition >= 2 THEN "LINE"
                        ELSE "POINT")

RECURSIVE bestMatchLoop_smallest(_, _, _, _, _)
\* mutant: the first key that fits is kept
bestMatchLoop_smallest(entries, k, partitionCount, bestMatch, bestPartitionCount) ==
    IF k > Len(entries) THEN bestMatch
    ELSE IF entries[k][1] <= partitionCount /\ bestPartitionCount = 0
         THEN bestMatchLoop_smallest(entries, k + 1, partitionCount, entries[k][2], entries[k][1])
         ELSE bestMatchLoop_smallest(entries, k + 1, partitionCount, bestMatch, bestPartitionCount)

RECURSIVE bestMatchLoop(_, _, _, _, _)
\* the for-of loop of decomposeGeometricType from entry k onwards
bestMatchLoop(entries, k, partitionCount, bestMatch, bestPartitionCount) ==
    IF k > Len(entries) THEN bestMatch
    ELSE IF entries[k][1] <= partitionCount /\ entries[k][1] > bestPartitionCount
         THEN bestMatchLoop(entries, k + 1, partitionCount, entries[k][2], entries[k][1])
         ELSE bestMatchLoop(entries, k + 1, partitionCount, bestMatch, bestPartitionCount)

\* mutant: a piece count above every key of the table goes to the generic rule
decomposeGeometricType_fallThrough(original, partitionCount) ==
    IF original \notin DOMAIN decompositionMap
    THEN getDefaultDecomposition(original, partitionCount)
    ELSE IF \A k \in 1..Len(decompositionMap[original]) :
                decompositionMap[original][k][1] < partitionCount
         THEN getDefaultDecomposition(original, partitionCount)
    ELSE Return(bestMatchLoop(decompositionMap[original], 1, partitionCount, "POINT", 0))

decomposeGeometricType(original, partitionCount) ==
    IF original \notin DOMAIN decompositionMap
    THEN getDefaultDecomposition(original, partitionCount)
    ELSE Return(bestMatchLoop(decompositionMap[original], 1, partitionCount, "POINT", 0))

\* mutant: a count outside the table is taken for a point
inferGeometricType_pointDefault(vertexCount) ==
    CASE vertexCount = 1 -> "POINT"
      [] vertexCount = 2 -> "LINE"
      [] vertexCount = 3 -> "TRIANGLE"
      [] vertexCount = 4 -> "TETRAHEDRON"
      [] vertexCount = 5 -> "FIVE_CELL"
      [] vertexCount = 6 -> "OCTAHEDRON"
      [] vertexCount = 8 -> "CUBE"
      [] vertexCount = 12 -> "ICOSAHEDRON"
      [] vertexCount = 16 -> "EIGHT_CELL"
      [] vertexCount = 20 -> "DODECAHEDRON"
      [] vertexCount = 24 -> "TWENTY_FOUR_CELL"
      [] vertexCount = 120 -> "SIX_HUNDRED_CELL"
      [] OTHER -> "POINT"

\* vertexToType[vertexCount] || GeometricType.CUBE
inferGeometricType(vertexCount) ==
    CASE vertexCount = 1 -> "POINT"
      [] vertexCount = 2 -> "LINE"
      [] vertexCount = 3 -> "TRIANGLE"
      [] vertexCount = 4 -> "TETRAHEDRON"
      [] vertexCount = 5 -> "FIVE_CELL"
      [] vertexCount = 6 -> "OCTAHEDRON"
      [] vertexCount = 8 -> "CUBE"
      [] vertexCount = 12 -> "ICOSAHEDRON"
      [] vertexCount = 16 -> "EIGHT_CELL"
      [] vertexCount = 20 -> "DODECAHEDRON"
      [] vertexCount = 24 -> "TWENTY_FOUR_CELL"
      [] vertexCount = 120 -> "SIX_HUNDRED_CELL"
      [] OTHER -> "CUBE"

RECURSIVE neighborsOf(_, _, _)
\* adjacency.get(id) after the edges from position k onwards were pushed
neighborsOf(id, edges, k) ==
    IF k > Len(edges) THEN <<>>
    ELSE (IF edges[k].from = id THEN <<edges[k].to>> ELSE <<>>)
         \o (IF edges[k].to = id THEN <<edges[k].from>> ELSE <<>>)
         \o neighborsOf(id, edges, k + 1)

\* the adjacency list of findConnectedComponents, keyed by vote identifier
adjacencyList(vertices, edges) ==
    [id \in {vertices[i].id : i \in 1..Len(vertices)} |-> neighborsOf(id, edges, 1)]

RECURSIVE dfsById(_, _, _), dfsByIdLoop(_, _, _, _)
\* PartitionDetector.dfs: returns the visited set after the call; the ids it
\* added to `visited` are the ids it added to `component`
dfsById(vertexId, adjacency, visited) ==
    dfsByIdLoop(vertexId, 1, adjacency, visited \cup {vertexId})

dfsByIdLoop(vertexId, k, adjacency, visited) ==
    LET neighbors == IF vertexId \in DOMAIN adjacency THEN adjacency[vertexId] ELSE <<>>
    IN  IF k > Len(neighbors) THEN visited
        ELSE dfsByIdLoop(vertexId, k + 1, adjacency,
                         IF neighbors[k] \notin visited
                         THEN dfsById(neighbors[k], adjacency, visited)
                         ELSE visited)

RECURSIVE findComponentsLoop(_, _, _, _, _)
findComponentsLoop(vertices, i, adjacency, visited, components) ==
    IF i > Len(vertices) THEN components
    ELSE IF vertices[i].id \notin visited
         THEN LET after == dfsById(vertices[i].id, adjacency, visited)
              IN  findComponentsLoop(vertices, i + 1, adjacency, after,
                                     Append(components, after \ visited))
         ELSE findComponentsLoop(vertices, i + 1, adjacency, visited, components)

\* mutant: no search, every vote is a component of its own
findConnectedComponents_singletons(vertices, edges) ==
    [i \in 1..Len(vertices) |-> {vertices[i].id}]

\* a list of identifier sets
findConnectedComponents(vertices, edges) ==
    findComponentsLoop(vertices, 1, adjacencyList(vertices, edges), {}, <<>>)

\* PartitionDetector keeps its own copies of the two graph builders
detectorConvertToVertices(vertices) == [i \in 1..Len(vertices) |-> vertices[i].id]

detectorBuildConsensusEdges(vertices) == edgesFrom(vertices, 1, 2)

\* mutant: the filter keeps the votes outside the component
groupVerticesByPartition_negated(vertices, components) ==
    [c \in 1..Len(components) |->
        LET outside(v) == v.id \notin components[c]
        IN  SelectSeq(vertices, outside)]

groupVerticesByPartition(vertices, components) ==
    [c \in 1..Len(components) |->
        LET inComponent(v) == v.id \in components[c]
        IN  SelectSeq(vertices, inComponent)]

detectViaBettiNumbers(vertices) ==
    LET edges == detectorBuildConsensusEdges(vertices)
        bettiNumbers == calculateBettiNumbers(detectorConvertToVertices(vertices), edges)
        isPartitioned == detectPartition(bettiNumbers)
        partitionCount == countPartitions(bettiNumbers)
        components == findConnectedComponents(vertices, edges)
        originalGeometricType == inferGeometricType(Len(vertices))
        decomposed == IF isPartitioned
                      THEN decomposeGeometricType(originalGeometricType, partitionCount)
                      ELSE Return(NoDual)
    IN  IF decomposed.threw THEN decomposed
        ELSE Return([isPartitioned |-> isPartitioned,
                     partitionCount |-> partitionCount,
                     components |-> components,
                     bettiNumbers |-> bettiNumbers,
                     originalGeometricType |-> originalGeometricType,
                     decomposedGeometricType |-> decomposed.value,
                     partitionVertices |-> groupVerticesByPartition(vertices, components)])

RECURSIVE allVertexIdsLoop(_, _, _)
\* the two nested forEach loops over partitionVertices, flattened: throws at the
\* first identifier already in allVertexIds
allVertexIdsLoop(flat, k, allVertexIds) ==
    IF k > Len(flat) THEN Return(TRUE)
    ELSE IF flat[k].id \in allVertexIds THEN Throw("Vertex appears in multiple partitions")
    ELSE allVertexIdsLoop(flat, k + 1, allVertexIds \cup {flat[k].id})

RECURSIVE flattenPartitions(_, _)
flattenPartitions(partitionVertices, k) ==
    IF k > Len(partitionVertices) THEN <<>>
    ELSE partitionVertices[k] \o flattenPartitions(partitionVertices, k + 1)

\* the try block of validatePartitionDetection
validateTry(partitionInfo) ==
    IF partitionInfo.partitionCount < 1 THEN Return(FALSE)
    ELSE IF partitionInfo.bettiNumbers.beta_0 # partitionInfo.partitionCount THEN Return(FALSE)
    ELSE IF Len(partitionInfo.components) # partitionInfo.partitionCount THEN Return(FALSE)
    ELSE allVertexIdsLoop(flattenPartitions(partitionInfo.partitionVertices, 1), 1, {})

\* the catch block
validateCatch(attempt) == IF attempt.threw THEN Return(FALSE) ELSE attempt

\* mutant: the exception of the identifier check is not caught
validatePartitionDetection_rethrow(partitionInfo) == validateTry(partitionInfo)

validatePartitionDetection(partitionInfo) == validateCatch(validateTry(partitionInfo))

(***************************************************************************)
(* dual-recovery: DualPartitionRecovery                                    *)
(***************************************************************************)
isInvalid(cert) == ~cert.valid

\* returns normally (TRUE) or throws
validatePartitionCertificates(certificates) ==
    IF Len(certificates) = 0 THEN Throw("No partition certificates provided")
    ELSE LET invalidCertificates == SelectSeq(certificates, isInvalid)
         IN  IF Len(invalidCertificates) > 0
             THEN Throw("Invalid certificates found: " \o ToString(Len(invalidCertificates)))
             ELSE LET firstType == certificates[1].geometricType
                      differs(cert) == cert.geometricType # firstType
                  IN  IF Len(SelectSeq(certificates, differs)) > 0
                      THEN Throw("Inconsistent geometric types in partition certificates")
                      ELSE Return(TRUE)

\* mutant: the face-vertex ratio alone, the partition threshold dropped
mapThresholdViaDual_ratioOnly(partitionThreshold, original, dual) ==
    LET originalShape == getGeometricShape(original)
        dualShape == getGeometricShape(dual)
    IN  IF originalShape.threw THEN originalShape
        ELSE IF dualShape.threw THEN dualShape
        ELSE IF original = dual THEN Return(partitionThreshold)
        ELSE Return(Clamp01(Frac(dualShape.value.vertices, originalShape.value.faces)))

mapThresholdViaDual(partitionThreshold, original, dual) ==
    LET originalShape == getGeometricShape(original)
        dualShape == getGeometricShape(dual)
    IN  IF originalShape.threw THEN originalShape
        ELSE IF dualShape.threw THEN dualShape
        ELSE IF original = dual THEN Return(partitionThreshold)
        ELSE LET faceVertexRatio == Frac(dualShape.value.vertices, originalShape.value.faces)
                 mappedThreshold == FracMul(partitionThreshold, faceVertexRatio)
             IN  Return(Clamp01(mappedThreshold))

RECURSIVE sumAgrees(_, _), sumVertices(_, _)
\* partitionCertificates.reduce((sum, cert) => sum + cert.agreesCount, 0)
sumAgrees(certificates, k) ==
    IF k > Len(certificates) THEN 0
    ELSE certificates[k].agreesCount + sumAgrees(certificates, k + 1)

\* partitionCertificates.reduce((sum, cert) => sum + cert.vertices.length, 0)
sumVertices(certificates, k) ==
    IF k > Len(certificates) THEN 0
    ELSE Len(certificates[k].vertices) + sumVertices(certificates, k + 1)

\* mutant: strict comparison in the unified validity
applyDualMapping_strict(partitionCertificates, originalShape, dualShape) ==
    LET totalAgrees == sumAgrees(partitionCertificates, 1)
        totalVertices == sumVertices(partitionCertificates, 1)
        unifiedThreshold == mapThresholdViaDual(originalShape.threshold,
                                                originalShape.type, dualShape.type)
    IN  IF unifiedThreshold.threw THEN unifiedThreshold
        ELSE LET requiredAgreement == Ceil(totalVertices, unifiedThreshold.value)
             IN  Return([totalAgrees |-> totalAgrees,
                         totalVertices |-> totalVertices,
                         unifiedThreshold |-> unifiedThreshold.value,
                         valid |-> totalAgrees > requiredAgreement])

applyDualMapping(partitionCertificates, originalShape, dualShape) ==
    LET totalAgrees == sumAgrees(partitionCertificates, 1)
        totalVertices == sumVertices(partitionCertificates, 1)
        unifiedThreshold == mapThresholdViaDual(originalShape.threshold,
                                                originalShape.type, dualShape.type)
    IN  IF unifiedThreshold.threw THEN unifiedThreshold
        ELSE LET requiredAgreement == Ceil(totalVertices, unifiedThreshold.value)
             IN  Return([totalAgrees |-> totalAgrees,
                         totalVertices |-> totalVertices,
                         unifiedThreshold |-> unifiedThreshold.value,
                         valid |-> totalAgrees >= requiredAgreement])

\* mutant: the ratio is taken for a self-dual shape too
calculateThresholdMapping_ratio(original, dual) ==
    Frac(dual.vertices, original.faces)

\* a factor, not clamped
calculateThresholdMapping(original, dual) ==
    IF original.type = dual.type THEN Frac(1, 1)
    ELSE Frac(dual.vertices, original.faces)

RECURSIVE flatMapVertices(_, _)
\* partitionCertificates.flatMap(cert => cert.vertices)
flatMapVertices(certificates, k) ==
    IF k > Len(certificates) THEN <<>>
    ELSE certificates[k].vertices \o flatMapVertices(certificates, k + 1)

\* mutant: the topology of the merged votes is recomputed instead of asserted
createRecoveredCertificate_recomputed(unifiedConsensus, originalType, partitionCertificates) ==
    LET originalShape == getGeometricShape(originalType)
    IN  IF originalShape.threw THEN originalShape
        ELSE Return([createConsensusCertificate(flatMapVertices(partitionCertificates, 1),
                                                originalShape.value)
                     EXCEPT !.agreesCount = unifiedConsensus.totalAgrees,
                            !.requiredCount = Ceil(unifiedConsensus.totalVertices,
                                                   unifiedConsensus.unifiedThreshold),
                            !.thresholdPercentage = unifiedConsensus.unifiedThreshold,
                            !.valid = unifiedConsensus.valid,
                            !.proof = "Recovered from " \o ToString(Len(partitionCertificates))
                                      \o " partitions using dual mapping"])

createRecoveredCertificate(unifiedConsensus, originalType, partitionCertificates) ==
    LET originalShape == getGeometricShape(originalType)
    IN  IF originalShape.threw THEN originalShape
        ELSE Return([geometricType |-> originalType,
                     shape |-> originalShape.value,
                     vertices |-> flatMapVertices(partitionCertificates, 1),
                     agreesCount |-> unifiedConsensus.totalAgrees,
                     requiredCount |-> Ceil(unifiedConsensus.totalVertices,
                                            unifiedConsensus.unifiedThreshold),
                     thresholdPercentage |-> unifiedConsensus.unifiedThreshold,
                     valid |-> unifiedConsensus.valid,
                     proof |-> "Recovered from " \o ToString(Len(partitionCertificates))
                               \o " partitions using dual mapping",
                     hasBetti |-> TRUE,
                     bettiNumbers |-> [beta_0 |-> 1, beta_1 |-> 0, beta_2 |-> 0],
                     partitionInfo |-> [isPartitioned |-> FALSE, partitionCount |-> 1]])

\* DualPartitionRecovery.createErrorCertificate: the shape is looked up first
recoveryErrorCertificate(originalType, message) ==
    LET originalShape == getGeometricShape(originalType)
    IN  IF originalShape.threw THEN originalShape
        ELSE Return([geometricType |-> originalType,
                     shape |-> originalShape.value,
                     vertices |-> <<>>,
                     agreesCount |-> 0,
                     requiredCount |-> 0,
                     thresholdPercentage |-> Frac(0, 1),
                     valid |-> FALSE,
                     proof |-> "Recovery failed: " \o message,
                     hasBetti |-> FALSE])

\* the try block of recoverFromPartition, one operator per statement; each takes
\* the outcome of the statement before it and ends the block if that one threw
\* mutant: success is the validity of the recovered certificate
recoverResult_validOnly(originalType, originalShape, dualShape, recoveredCertificate) ==
    IF recoveredCertificate.threw THEN recoveredCertificate
    ELSE Return([success |-> recoveredCertificate.value.valid,
                 recoveredCertificate |-> recoveredCertificate.value,
                 recoveryProof |-> "Dual Recovery Proof: " \o originalType \o " / "
                                   \o dualShape.type,
                 dualMapping |-> [original |-> originalType,
                                  dual |-> dualShape.type,
                                  thresholdMapping |->
                                      calculateThresholdMapping(originalShape, dualShape)]])

recoverResult(originalType, originalShape, dualShape, recoveredCertificate) ==
    IF recoveredCertificate.threw THEN recoveredCertificate
    ELSE Return([success |-> TRUE,
                 recoveredCertificate |-> recoveredCertificate.value,
                 recoveryProof |-> "Dual Recovery Proof: " \o originalType \o " / "
                                   \o dualShape.type,
                 dualMapping |-> [original |-> originalType,
                                  dual |-> dualShape.type,
                                  thresholdMapping |->
                                      calculateThresholdMapping(originalShape, dualShape)]])

recoverMapped(partitionCertificates, originalType, originalShape, dualShape, unifiedConsensus) ==
    IF unifiedConsensus.threw THEN unifiedConsensus
    ELSE recoverResult(originalType, originalShape, dualShape,
                       createRecoveredCertificate(unifiedConsensus.value, originalType,
                                                  partitionCertificates))

recoverWithDual(partitionCertificates, originalType, originalShape, dualShape) ==
    IF dualShape.threw THEN dualShape
    ELSE IF dualShape.value.null
         THEN Throw("No dual available for geometric type: " \o originalType)
    ELSE recoverMapped(partitionCertificates, originalType, originalShape, dualShape.value.shape,
                       applyDualMapping(partitionCertificates, originalShape,
                                        dualShape.value.shape))

recoverWithShape(partitionCertificates, originalType, originalShape) ==
    IF originalShape.threw THEN originalShape
    ELSE recoverWithDual(partitionCertificates, originalType, originalShape.value,
                         getDual(originalShape.value))

recoverValidated(partitionCertificates, originalType, validated) ==
    IF validated.threw THEN validated
    ELSE recoverWithShape(partitionCertificates, originalType, getGeometricShape(originalType))

recoverTry(partitionCertificates, originalType) ==
    recoverValidated(partitionCertificates, originalType,
                     validatePartitionCertificates(partitionCertificates))

\* the catch block: the failure result, unless building its certificate throws
recoverFailed(originalType, message, certificate) ==
    IF certificate.threw THEN certificate
    ELSE Return([success |-> FALSE,
                 recoveredCertificate |-> certificate.value,
                 recoveryProof |-> "Recovery failed: " \o message,
                 dualMapping |-> [original |-> originalType,
                                  dual |-> originalType,
                                  thresholdMapping |-> Frac(0, 1)]])

recoverCatch(originalType, attempt) ==
    IF ~attempt.threw THEN attempt
    ELSE recoverFailed(originalType, attempt.error,
                       recoveryErrorCertificate(originalType, attempt.error))

recoverFromPartition(partitionCertificates, originalType) ==
    recoverCatch(originalType, recoverTry(partitionCertificates, originalType))

\* mutant: four pieces are already handed to the hierarchical strategy
determineRecoveryStrategy_strict(partitionCertificates, originalShape) ==
    LET partitionCount == Len(partitionCertificates)
    IN  IF partitionCount < 4 THEN "dual"
        ELSE IF partitionCount <= 8 THEN "hierarchical"
        ELSE "federated"

determineRecoveryStrategy(partitionCertificates, originalShape) ==
    LET partitionCount == Len(partitionCertificates)
    IN  IF partitionCount <= 4 THEN "dual"
        ELSE IF partitionCount <= 8 THEN "hierarchical"
        ELSE "federated"

RecoveryStep(stepId, geometricType, requiredParticipants, dependencies) ==
    [stepId |-> stepId, geometricType |-> geometricType,
     requiredParticipants |-> requiredParticipants, dependencies |-> dependencies]

\* dualShape is the value getDual returned: null for a shape without a dual
generateRecoverySteps(partitionCertificates, originalShape, dualShape, strategy) ==
    LET n == Len(partitionCertificates)
    IN  CASE strategy = "dual" ->
                <<RecoveryStep("dual-1",
                               IF dualShape.null THEN originalShape.type
                               ELSE dualShape.shape.type,
                               n, <<>>),
                  RecoveryStep("dual-2", originalShape.type, n, <<"dual-1">>),
                  RecoveryStep("dual-3", originalShape.type, n, <<"dual-1", "dual-2">>)>>
          [] strategy = "hierarchical" ->
                <<RecoveryStep("hier-1", "TETRAHEDRON", Ceil(n, Frac(1, 2)), <<>>),
                  RecoveryStep("hier-2", "OCTAHEDRON", Ceil(n, Frac(1, 4)), <<"hier-1">>),
                  RecoveryStep("hier-3", originalShape.type, 1, <<"hier-1", "hier-2">>)>>
          [] strategy = "federated" ->
                <<RecoveryStep("fed-1", "TWENTY_FOUR_CELL", n, <<>>),
                  RecoveryStep("fed-2", "TWENTY_FOUR_CELL", Ceil(n, Frac(8, 10)), <<"fed-1">>),
                  RecoveryStep("fed-3", originalShape.type, n, <<"fed-1", "fed-2">>)>>

RECURSIVE complexityMultiplier(_, _)
\* the reduce of estimateRecoveryTime from step k onwards, in halves
complexityMultiplier(steps, k) ==
    IF k > Len(steps) THEN 0
    ELSE (IF steps[k].geometricType = "TWENTY_FOUR_CELL" THEN 4
          ELSE IF steps[k].geometricType = "OCTAHEDRON" THEN 3
          ELSE 2)
         + complexityMultiplier(steps, k + 1)

estimateRecoveryTime(steps) ==
    Ceil(Len(steps) * 1000, Frac(complexityMultiplier(steps, 1), 2))

\* generatePlanId: `recovery-plan-${Date.now()}-${random}`
generatePlanId(timestamp, random) == <<"recovery-plan", timestamp, random>>

\* no try block: an unknown originalType makes the call throw
createRecoveryPlan(partitionCertificates, originalType, timestamp, random) ==
    LET originalShape == getGeometricShape(originalType)
    IN  IF originalShape.threw THEN originalShape
        ELSE LET dualShape == getDual(originalShape.value)
             IN  IF dualShape.threw THEN dualShape
                 ELSE LET recoveryStrategy ==
                              determineRecoveryStrategy(partitionCertificates,
                                                        originalShape.value)
                          recoverySteps ==
                              generateRecoverySteps(partitionCertificates, originalShape.value,
                                                    dualShape.value, recoveryStrategy)
                      IN  Return([planId |-> generatePlanId(timestamp, random),
                                  partitionCertificates |-> partitionCertificates,
                                  originalType |-> originalType,
                                  recoveryStrategy |-> recoveryStrategy,
                                  estimatedRecoveryTime |-> estimateRecoveryTime(recoverySteps),
                                  recoverySteps |-> recoverySteps])

(***************************************************************************)
(* networking: GeometricProtocol and UDPGeometricServer                    *)
(* A Map is a function from its keys.                                      *)
(***************************************************************************)
\* the thresholds table of getThresholdForType, in thousandths
protocolThresholds ==
    [POINT |-> 0, LINE |-> 0, TRIANGLE |-> 0, SQUARE |-> 0,
     TETRAHEDRON |-> 1000, CUBE |-> 500, OCTAHEDRON |-> 833, DODECAHEDRON |-> 600,
     ICOSAHEDRON |-> 750, FIVE_CELL |-> 1000, EIGHT_CELL |-> 500, SIXTEEN_CELL |-> 750,
     TWENTY_FOUR_CELL |-> 833, SIX_HUNDRED_CELL |-> 600,
     TRUNCATED_TETRAHEDRON |-> 1000, CUBOCTAHEDRON |-> 800, TRUNCATED_CUBE |-> 750,
     TRUNCATED_OCTAHEDRON |-> 750, RHOMBICUBOCTAHEDRON |-> 600,
     TRUNCATED_CUBOCTAHEDRON |-> 600, SNUB_CUBE |-> 500, ICOSIDODECAHEDRON |-> 800,
     TRUNCATED_DODECAHEDRON |-> 700, TRUNCATED_ICOSAHEDRON |-> 700,
     RHOMBICOSIDODECAHEDRON |-> 600, TRUNCATED_ICOSIDODECAHEDRON |-> 600,
     SNUB_DODECAHEDRON |-> 500]

\* thresholds[geometricType] || 0.5: a missing entry and an entry of 0 give 0.5
getThresholdForType(geometricType) ==
    IF geometricType \in DOMAIN protocolThresholds /\ protocolThresholds[geometricType] # 0
    THEN Frac(protocolThresholds[geometricType], 1000)
    ELSE Frac(1, 2)

\* GeometricProtocol.calculateRequiredAgreement
protocolRequiredAgreement(geometricType, participantCount) ==
    Ceil(participantCount, getThresholdForType(geometricType))

\* the proposal a node creates; its identifier and expiration time come from
\* that node's clock and random draw
createConsensusProposal(proposalId, proposer, geometricType, participants, expirationTime) ==
    [proposalId |-> proposalId,
     proposer |-> proposer,
     geometricType |-> geometricType,
     participants |-> participants,
     requiredAgreement |-> protocolRequiredAgreement(geometricType, Len(participants)),
     currentAgreement |-> 0,
     status |-> "pending",
     expirationTime |-> expirationTime]

createConsensusVote(proposalId, voter, agrees, weight) ==
    [proposalId |-> proposalId, voter |-> voter, agrees |-> agrees, weight |-> weight]

\* Array.prototype.includes
includes(array, value) == \E i \in 1..Len(array) : array[i] = value

RECURSIVE agreementSum(_, _)
\* validVotes.filter(vote => vote.agrees).reduce((sum, vote) => sum + (vote.weight || 1.0), 0),
\* from vote k onwards
agreementSum(validVotes, k) ==
    IF k > Len(validVotes) THEN 0
    ELSE (IF ~validVotes[k].agrees THEN 0
          ELSE IF validVotes[k].weight # 0 THEN validVotes[k].weight
          ELSE 1)
         + agreementSum(validVotes, k + 1)

\* what processConsensusProposal returns once the votes are filtered
processValidVotes(proposal, validVotes) ==
    [status |-> IF agreementSum(validVotes, 1) >= proposal.requiredAgreement THEN "achieved"
                ELSE IF Len(validVotes) >= Len(proposal.participants) THEN "failed"
                ELSE "pending",
     agreementCount |-> agreementSum(validVotes, 1),
     requiredCount |-> proposal.requiredAgreement,
     threshold |-> getThresholdForType(proposal.geometricType),
     validVotes |-> validVotes]

processConsensusProposal(proposal, votes, clock) ==
    IF clock > proposal.expirationTime
    THEN [status |-> "timeout",
          agreementCount |-> 0,
          requiredCount |-> proposal.requiredAgreement,
          threshold |-> getThresholdForType(proposal.geometricType),
          validVotes |-> <<>>]
    ELSE LET valid(vote) == /\ vote.proposalId = proposal.proposalId
                            /\ includes(proposal.participants, vote.voter)
         IN  processValidVotes(proposal, SelectSeq(votes, valid))

\* Map.prototype.has and Map.prototype.set
has(map, key) == key \in DOMAIN map

set(map, key, value) == (key :> value) @@ map

\* the identifier of this node
nodeId == "self"

handleConsensusProposal(state, proposal) ==
    IF ~has(state.proposals, proposal.proposalId)
    THEN [state EXCEPT !.proposals = set(@, proposal.proposalId, proposal),
                       !.votes = set(@, proposal.proposalId, <<>>)]
    ELSE state

\* the status written into the stored proposal for a processing result
statusAfter(proposal, result) ==
    IF result.status = "achieved" THEN [proposal EXCEPT !.status = "achieved"]
    ELSE IF result.status = "failed" THEN [proposal EXCEPT !.status = "failed"]
    ELSE proposal

\* handleConsensusVote once the vote is stored: `votes` is the stored list
checkConsensus(state, proposalId, votes, clock) ==
    IF has(state.proposals, proposalId)
    THEN [state EXCEPT !.proposals[proposalId] =
              statusAfter(@, processConsensusProposal(@, votes, clock))]
    ELSE state

storeVote(state, vote) ==
    [state EXCEPT !.votes =
        set(@, vote.proposalId,
            Append(IF has(state.votes, vote.proposalId) THEN state.votes[vote.proposalId]
                   ELSE <<>>,
                   vote))]

handleConsensusVote(state, vote, clock) ==
    checkConsensus(storeVote(state, vote), vote.proposalId,
                   storeVote(state, vote).votes[vote.proposalId], clock)

handleHeartbeat(state, message) ==
    [state EXCEPT !.participants = @ \cup {message.from}]

\* no handler is registered with onMessage
handleMessage(state, message, clock) ==
    LET known == IF message.from # nodeId
                 THEN [state EXCEPT !.participants = @ \cup {message.from}]
                 ELSE state
    IN  CASE message.type = "consensus_proposal" -> handleConsensusProposal(known, message.data)
          [] message.type = "consensus_vote" -> handleConsensusVote(known, message.data, clock)
          [] message.type = "heartbeat" -> handleHeartbeat(known, message)
          [] OTHER -> known

\* !!(message.type && message.data && message.timestamp && message.from): of
\* these the model's datagrams can lack the sender
validateNetworkMessage(message) == message.from # ""

\* the socket's 'message' handler
onDatagram(state, message, clock) ==
    IF ~validateNetworkMessage(message) THEN state
    ELSE handleMessage(state, message, clock)

(***************************************************************************)
(* Inputs.  Identifiers are only ever compared for equality, so vote lists *)
(* are enumerated up to renaming: each vote carries an identifier already  *)
(* used in the list or the next unused one.                                *)
(***************************************************************************)
\* identifier patterns of n votes: the first vote has identifier 1, a later
\* vote an identifier already used or the next unused one
IdPatterns(n) ==
    {ids \in [1..n -> 1..n] :
        \A i \in 1..n : \/ ids[i] = 1
                        \/ \E j \in 1..(i - 1) : ids[j] >= ids[i] - 1}

VoteListsOfLen(n) ==
    {[i \in 1..n |-> [id |-> ids[i], agrees |-> agrees[i]]] :
        ids \in IdPatterns(n), agrees \in [1..n -> BOOLEAN]}

VoteLists == UNION {VoteListsOfLen(n) : n \in 0..MaxVotes}

\* a round of votes with pairwise distinct identifiers: 1, 2, ... in list order
Rounds ==
    UNION {{[i \in 1..n |-> [id |-> i, agrees |-> agrees[i]]] : agrees \in [1..n -> BOOLEAN]} :
           n \in 0..MaxVotes}

\* the shapes the pieces of a split round are verified against
PieceTypes == {"POINT", "LINE", "TETRAHEDRON"}

\* ways to cut a round of n votes into k consecutive non-empty pieces: the
\* position of the last vote of each piece; no piece, no votes
Cuts(n, k) ==
    {ends \in [1..k -> 1..n] :
        /\ \A i \in 1..(k - 1) : ends[i] < ends[i + 1]
        /\ IF k = 0 THEN n = 0 ELSE ends[k] = n}

pieceVotes(votes, ends, i) ==
    SubSeq(votes, (IF i = 1 THEN 0 ELSE ends[i - 1]) + 1, ends[i])

\* the certificates of the pieces, each from its own verifyConsensus call
pieceCertificates(votes, ends, types) ==
    [i \in 1..Len(ends) |-> verifyConsensus(pieceVotes(votes, ends, i), types[i]).value.certificate]

\* a graph for the Betti calculator: n vertices with the identifiers 1..n, and
\* edges whose endpoints are these or, below the largest graph, one
\* identifier that no vertex carries.  The calculator visits the edges only to
\* set matrix cells and to count them, so edge lists are enumerated up to
\* reordering: self-loops, repeated edges and both directions occur.
GraphVertices(n) == [i \in 1..n |-> i]

EndpointIds(n) == 1..(IF n < MaxGraphVertices THEN n + 1 ELSE n)

EdgeRank(edge) == edge.from * (MaxGraphVertices + 1) + edge.to

EdgeLists(n) ==
    UNION {{edges \in [1..m -> {[from |-> a, to |-> b] : a, b \in EndpointIds(n)}] :
               \A k \in 1..(m - 1) : EdgeRank(edges[k]) <= EdgeRank(edges[k + 1])} :
           m \in 0..MaxEdges}

\* the triple of the graph, and the same triple with two more cycles
BettiCandidates(vertices, edges) ==
    {calculateBettiNumbers(vertices, edges),
     [calculateBettiNumbers(vertices, edges) EXCEPT !.beta_1 = @ + 2]}

BettiTriples == [beta_0 : 0..MaxBetti, beta_1 : 0..MaxBetti, beta_2 : 0..MaxBetti]

\* partition summaries offered to the validator: votes with identifiers up to
\* renaming, cut into pieces; the piece count, beta_0 and the component list
\* agree with one another or are one off
IdLists ==
    UNION {{[i \in 1..n |-> [id |-> ids[i], agrees |-> TRUE]] : ids \in IdPatterns(n)} :
           n \in 0..MaxVotes}

piecesOf(votes, ends) == [i \in 1..Len(ends) |-> pieceVotes(votes, ends, i)]

idsOf(votes) == [i \in 1..Len(votes) |-> votes[i].id]

Summary(partitionVertices, partitionCount, beta_0, componentCount) ==
    [isPartitioned |-> partitionCount > 1,
     partitionCount |-> partitionCount,
     bettiNumbers |-> [beta_0 |-> beta_0, beta_1 |-> 0, beta_2 |-> 0],
     components |-> [i \in 1..componentCount |->
                        IF i <= Len(partitionVertices) THEN idsOf(partitionVertices[i])
                        ELSE <<>>],
     partitionVertices |-> partitionVertices]

\* thresholds handed to mapThresholdViaDual: the catalogue's range and one
\* value above it
Thresholds == {Frac(0, 1), Frac(1, 4), Frac(1, 2), Frac(833, 1000), Frac(1, 1), Frac(3, 2)}

\* readings of the clock, and values of the random suffix of an identifier
ClockReadings == {0, 1}

RandomDraws == {1, 2}

\* the certificate of one piece: a single agreeing vote verified against POINT
planPiece == verifyConsensus(<<[id |-> 1, agrees |-> TRUE]>>, "POINT").value.certificate

PlanPieces == {[i \in 1..n |-> planPiece] : n \in 0..MaxPlanPieces}

\* a certificate without one of its fields
withoutField(certificate, field) ==
    [f \in DOMAIN certificate \ {field} |-> certificate[f]]

\* certificates handed to validateCertificate: one as issued, and copies of it
\* with one field altered or removed
AlteredCertificates(certificate) ==
    {[altered |-> "none", certificate |-> certificate]}
    \cup {[altered |-> "agreesCount", certificate |-> [certificate EXCEPT !.agreesCount = a]] :
             a \in {certificate.agreesCount - 1, certificate.agreesCount + 1}}
    \cup {[altered |-> "requiredCount", certificate |-> [certificate EXCEPT !.requiredCount = r]] :
             r \in {certificate.requiredCount - 1, certificate.requiredCount + 1}}
    \cup {[altered |-> "valid", certificate |-> [certificate EXCEPT !.valid = ~@]]}
    \cup {[altered |-> field, certificate |-> withoutField(certificate, field)] :
             field \in {"certificateId", "shape"}}

distinctIds(votes) ==
    \A i, j \in 1..Len(votes) : i # j => votes[i].id # votes[j].id

(***************************************************************************)
(* Actions: one call of a public operation each                            *)
(***************************************************************************)
\* new Map()
EmptyMap == [key \in {} |-> key]

Init ==
    /\ call = [op |-> "none"]
    /\ ret = Return("none")
    /\ earlier = [op |-> "none"]
    /\ now = 0
    /\ consensusState = [proposals |-> EmptyMap, votes |-> EmptyMap, participants |-> {}]

\* the engine keeps no state between calls: every call starts from the idle state
Idle == call.op = "none"

VerifyConsensus ==
    /\ Idle
    /\ \E criteria \in VoteLists, geometricType \in AnyType :
        /\ call' = [op |-> "verifyConsensus", criteria |-> criteria,
                    geometricType |-> geometricType]
        /\ ret' = verifyConsensus(criteria, geometricType)
    /\ UNCHANGED <<earlier, serverVars>>

MustLocal ==
    /\ Idle
    /\ \E criteria \in VoteLists :
        /\ call' = [op |-> "mustLocal", criteria |-> criteria]
        /\ ret' = mustLocal(criteria)
    /\ UNCHANGED <<earlier, serverVars>>

ShouldLocal ==
    /\ Idle
    /\ \E criteria \in VoteLists :
        /\ call' = [op |-> "shouldLocal", criteria |-> criteria]
        /\ ret' = shouldLocal(criteria)
    /\ UNCHANGED <<earlier, serverVars>>

MayLocal ==
    /\ Idle
    /\ \E criteria \in VoteLists :
        /\ call' = [op |-> "mayLocal", criteria |-> criteria]
        /\ ret' = mayLocal(criteria)
    /\ UNCHANGED <<earlier, serverVars>>

MustFederation ==
    /\ Idle
    /\ \E criteria \in VoteLists :
        /\ call' = [op |-> "mustFederation", criteria |-> criteria]
        /\ ret' = mustFederation(criteria)
    /\ UNCHANGED <<earlier, serverVars>>

ShouldFederation ==
    /\ Idle
    /\ \E criteria \in VoteLists :
        /\ call' = [op |-> "shouldFederation", criteria |-> criteria]
        /\ ret' = shouldFederation(criteria)
    /\ UNCHANGED <<earlier, serverVars>>

MayFederation ==
    /\ Idle
    /\ \E criteria \in VoteLists :
        /\ call' = [op |-> "mayFederation", criteria |-> criteria]
        /\ ret' = mayFederation(criteria)
    /\ UNCHANGED <<earlier, serverVars>>

MustGlobal ==
    /\ Idle
    /\ \E criteria \in VoteLists :
        /\ call' = [op |-> "mustGlobal", criteria |-> criteria]
        /\ ret' = mustGlobal(criteria)
    /\ UNCHANGED <<earlier, serverVars>>

ShouldGlobal ==
    /\ Idle
    /\ \E criteria \in VoteLists :
        /\ call' = [op |-> "shouldGlobal", criteria |-> criteria]
        /\ ret' = shouldGlobal(criteria)
    /\ UNCHANGED <<earlier, serverVars>>

MayGlobal ==
    /\ Idle
    /\ \E criteria \in VoteLists :
        /\ call' = [op |-> "mayGlobal", criteria |-> criteria]
        /\ ret' = mayGlobal(criteria)
    /\ UNCHANGED <<earlier, serverVars>>

DetectViaBettiNumbers ==
    /\ Idle
    /\ \E vertices \in VoteLists :
        /\ call' = [op |-> "detectViaBettiNumbers", vertices |-> vertices]
        /\ ret' = detectViaBettiNumbers(vertices)
    /\ UNCHANGED <<earlier, serverVars>>

\* a round of votes is cut into pieces, each piece is verified on its own and
\* the piece certificates are handed to the recovery
RecoverFromPartition ==
    /\ Idle
    /\ \E votes \in Rounds, k \in 0..MaxPieces, originalType \in AnyType :
       \E ends \in Cuts(Len(votes), k), types \in [1..k -> PieceTypes] :
        /\ call' = [op |-> "recoverFromPartition", votes |-> votes, ends |-> ends,
                    types |-> types,
                    partitionCertificates |-> pieceCertificates(votes, ends, types),
                    originalType |-> originalType]
        /\ ret' = recoverFromPartition(pieceCertificates(votes, ends, types), originalType)
    /\ UNCHANGED <<earlier, serverVars>>

CalculateBettiNumbers ==
    /\ Idle
    /\ \E n \in 0..MaxGraphVertices :
       \E edges \in EdgeLists(n) :
        /\ call' = [op |-> "calculateBettiNumbers", vertices |-> GraphVertices(n), edges |-> edges]
        /\ ret' = Return(calculateBettiNumbers(GraphVertices(n), edges))
    /\ UNCHANGED <<earlier, serverVars>>

DetectPartition ==
    /\ Idle
    /\ \E betti \in BettiTriples :
        /\ call' = [op |-> "detectPartition", betti |-> betti]
        /\ ret' = Return(detectPartition(betti))
    /\ UNCHANGED <<earlier, serverVars>>

CountPartitions ==
    /\ Idle
    /\ \E betti \in BettiTriples :
        /\ call' = [op |-> "countPartitions", betti |-> betti]
        /\ ret' = Return(countPartitions(betti))
    /\ UNCHANGED <<earlier, serverVars>>

VerifyBettiProperties ==
    /\ Idle
    /\ \E n \in 0..MaxGraphVertices :
       \E edges \in EdgeLists(n) :
       \E betti \in BettiCandidates(GraphVertices(n), edges) :
        /\ call' = [op |-> "verifyBettiProperties", betti |-> betti,
                    vertices |-> GraphVertices(n), edges |-> edges]
        /\ ret' = Return(verifyBettiProperties(betti, GraphVertices(n), edges))
    /\ UNCHANGED <<earlier, serverVars>>

ValidatePartitionDetection ==
    /\ Idle
    /\ \E votes \in IdLists, partitionCount \in 0..MaxPieces :
       \E k \in 0..MaxPieces :
       \E ends \in Cuts(Len(votes), k) :
       \E beta_0 \in {partitionCount, partitionCount + 1},
          componentCount \in {partitionCount, partitionCount + 1} :
        /\ call' = [op |-> "validatePartitionDetection",
                    partitionInfo |-> Summary(piecesOf(votes, ends), partitionCount,
                                              beta_0, componentCount)]
        /\ ret' = validatePartitionDetection(Summary(piecesOf(votes, ends), partitionCount,
                                                     beta_0, componentCount))
    /\ UNCHANGED <<earlier, serverVars>>

DecomposeGeometricType ==
    /\ Idle
    /\ \E original \in AnyType, partitionCount \in 0..MaxPartitionCount :
        /\ call' = [op |-> "decomposeGeometricType", original |-> original,
                    partitionCount |-> partitionCount]
        /\ ret' = decomposeGeometricType(original, partitionCount)
    /\ UNCHANGED <<earlier, serverVars>>

InferGeometricType ==
    /\ Idle
    /\ \E vertexCount \in 0..MaxVertexCount :
        /\ call' = [op |-> "inferGeometricType", vertexCount |-> vertexCount]
        /\ ret' = Return(inferGeometricType(vertexCount))
    /\ UNCHANGED <<earlier, serverVars>>

MapThresholdViaDual ==
    /\ Idle
    /\ \E partitionThreshold \in Thresholds, original \in AnyType, dual \in AnyType :
        /\ call' = [op |-> "mapThresholdViaDual", partitionThreshold |-> partitionThreshold,
                    original |-> original, dual |-> dual]
        /\ ret' = mapThresholdViaDual(partitionThreshold, original, dual)
    /\ UNCHANGED <<earlier, serverVars>>

GetGeometricShape ==
    /\ Idle
    /\ \E type \in AnyType :
        /\ call' = [op |-> "getGeometricShape", type |-> type]
        /\ ret' = getGeometricShape(type)
    /\ UNCHANGED <<earlier, serverVars>>

GetDual ==
    /\ Idle
    /\ \E type \in GeometricType :
        /\ call' = [op |-> "getDual", shape |-> GEOMETRIC_SHAPES[type]]
        /\ ret' = getDual(GEOMETRIC_SHAPES[type])
    /\ UNCHANGED <<earlier, serverVars>>

CreateRecoveryPlan ==
    /\ Idle
    /\ \E partitionCertificates \in PlanPieces, originalType \in AnyType,
          timestamp \in {t \in ClockReadings : t >= now}, random \in RandomDraws :
        /\ call' = [op |-> "createRecoveryPlan",
                    partitionCertificates |-> partitionCertificates,
                    originalType |-> originalType]
        /\ now' = timestamp
        /\ ret' = createRecoveryPlan(partitionCertificates, originalType, timestamp, random)
    /\ UNCHANGED <<earlier, consensusState>>

\* a certificate issued by verifyConsensus is handed to validateCertificate,
\* as issued or altered on the way
ValidateCertificate ==
    /\ Idle
    /\ \E criteria \in Rounds, geometricType \in GeometricType, random \in RandomDraws :
       \E input \in AlteredCertificates(
                       verifyConsensusStamped(criteria, geometricType, now,
                                              random).value.certificate) :
        /\ call' = [op |-> "validateCertificate", criteria |-> criteria,
                    geometricType |-> geometricType, altered |-> input.altered,
                    certificate |-> input.certificate]
        /\ ret' = validateCertificate(input.certificate)
    /\ UNCHANGED <<earlier, serverVars>>

\* the summary detectViaBettiNumbers returned for a vote list is handed to
\* validatePartitionDetection
ValidateDetected ==
    /\ Idle
    /\ \E vertices \in VoteLists :
        /\ ~detectViaBettiNumbers(vertices).threw
        /\ call' = [op |-> "validatePartitionDetection", vertices |-> vertices,
                    partitionInfo |-> detectViaBettiNumbers(vertices).value]
        /\ ret' = validatePartitionDetection(detectViaBettiNumbers(vertices).value)
    /\ UNCHANGED <<earlier, serverVars>>

Next ==
    \/ CalculateBettiNumbers
    \/ DetectPartition
    \/ CountPartitions
    \/ VerifyBettiProperties
    \/ ValidatePartitionDetection
    \/ DecomposeGeometricType
    \/ InferGeometricType
    \/ MapThresholdViaDual
    \/ GetGeometricShape
    \/ GetDual
    \/ VerifyConsensus
    \/ MustLocal
    \/ ShouldLocal
    \/ MayLocal
    \/ MustFederation
    \/ ShouldFederation
    \/ MayFederation
    \/ MustGlobal
    \/ ShouldGlobal
    \/ MayGlobal
    \/ DetectViaBettiNumbers
    \/ RecoverFromPartition
    \/ ValidateDetected
    \/ CreateRecoveryPlan
    \/ ValidateCertificate

Spec == Init /\ [][Next]_vars

(***************************************************************************)
(* UDPGeometricServer: the datagrams of other nodes arrive in any order,   *)
(* any number of times, and each is handled in one piece.                  *)
(***************************************************************************)
ProposalIds == {"p1"}

Nodes == {"a", "b"}

\* a voter that no proposal lists as participant
Outsiders == {"c"}

ProposalTypes == {"TETRAHEDRON", "CUBE"}

\* the proposals other nodes send: a and b are to vote, and the proposal
\* expires at a clock reading or after the last one
ProposalsSent ==
    {createConsensusProposal(proposalId, "a", geometricType, <<"a", "b">>, expirationTime) :
        proposalId \in ProposalIds, geometricType \in ProposalTypes,
        expirationTime \in ClockReadings}

\* the votes other nodes send: weight 1 is the default of createConsensusVote
VotesSent ==
    {createConsensusVote(proposalId, voter, agrees, weight) :
        proposalId \in ProposalIds, voter \in Nodes \cup Outsiders,
        agrees \in BOOLEAN, weight \in {1, 2}}

NetworkMessage(type, data, from) == [type |-> type, data |-> data, from |-> from]

ReceiveProposal ==
    /\ \E proposal \in ProposalsSent :
        consensusState' = onDatagram(consensusState,
                                     NetworkMessage("consensus_proposal", proposal,
                                                    proposal.proposer),
                                     now)
    /\ UNCHANGED <<call, ret, earlier, now>>

ReceiveVote ==
    /\ \E vote \in VotesSent :
        /\ IF has(consensusState.votes, vote.proposalId)
           THEN Len(consensusState.votes[vote.proposalId]) < MaxServerVotes
           ELSE TRUE
        /\ consensusState' = onDatagram(consensusState,
                                        NetworkMessage("consensus_vote", vote, vote.voter),
                                        now)
    /\ UNCHANGED <<call, ret, earlier, now>>

\* a heartbeat of a node, or one without a sender, which is dropped
ReceiveHeartbeat ==
    /\ \E from \in Nodes \cup {""} :
        consensusState' = onDatagram(consensusState,
                                     NetworkMessage("heartbeat",
                                                    [nodeId |-> from, status |-> "active"],
                                                    from),
                                     now)
    /\ UNCHANGED <<call, ret, earlier, now>>

\* time passes
Tick ==
    /\ \E later \in ClockReadings : later > now /\ now' = later
    /\ UNCHANGED <<call, ret, earlier, consensusState>>

NextServer ==
    \/ ReceiveProposal
    \/ ReceiveVote
    \/ ReceiveHeartbeat
    \/ Tick

SpecServer == Init /\ [][NextServer]_vars

(***************************************************************************)
(* Two successive calls of verifyConsensus on one GeometricConsensus       *)
(* instance.  Votes may carry the optional weight field, and certificates  *)
(* carry their identifier and timestamp.                                   *)
(***************************************************************************)
\* weights a vote may carry; a vote may also carry none
Weights == {3}

VotesOf(i) ==
    {[id |-> i, agrees |-> a] : a \in BOOLEAN}
    \cup {[id |-> i, agrees |-> a, weight |-> w] : a \in BOOLEAN, w \in Weights}

\* vote lists with the identifiers 1, 2, ... in list order
WeightedVoteLists ==
    UNION {{votes \in [1..n -> UNION {VotesOf(i) : i \in 1..n}] :
               \A i \in 1..n : votes[i].id = i} :
           n \in 0..MaxCallVotes}

\* shapes of the two calls: required agreement 1 and 2
CallTypes == {"POINT", "LINE"}

\* a call of verifyConsensus; the call before it, if any, is kept in `earlier`.
\* The clock may have advanced since the last reading.
VerifyConsensusCall ==
    /\ call.op \in {"none", "verifyConsensus"}
    /\ earlier.op = "none"
    /\ \E criteria \in WeightedVoteLists, geometricType \in CallTypes,
          timestamp \in {t \in ClockReadings : t >= now}, random \in RandomDraws :
        /\ earlier' = IF call.op = "none" THEN earlier
                      ELSE [op |-> call.op, call |-> call, ret |-> ret]
        /\ call' = [op |-> "verifyConsensus", criteria |-> criteria,
                    geometricType |-> geometricType]
        /\ now' = timestamp
        /\ ret' = verifyConsensusStamped(criteria, geometricType, timestamp, random)
    /\ UNCHANGED consensusState

NextCalls == VerifyConsensusCall

SpecCalls == Init /\ [][NextCalls]_vars

(***************************************************************************)
(* Properties                                                              *)
(***************************************************************************)
\* r is the least integer with r >= count * x
IsCeiling(r, count, x) == r * x.d >= count * x.n /\ (r - 1) * x.d < count * x.n

numAgreeing(votes) == Cardinality({i \in 1..Len(votes) : votes[i].agrees})

bothValues(votes) ==
    \E i, j \in 1..Len(votes) : votes[i].agrees /\ ~votes[j].agrees

C2_UnknownShapeDegrades ==
    (call.op = "verifyConsensus" /\ call.geometricType \notin GeometricType) =>
        /\ ~ret.threw
        /\ ~ret.value.success
        /\ ~ret.value.certificate.valid
        /\ ret.value.certificate.agreesCount = 0
        /\ ret.value.certificate.requiredCount = 0
        /\ ret.value.certificate.proof =
               "Error in consensus verification: Unknown geometric type: " \o call.geometricType

\* C3: mustLocal on the empty vote list or on a single agreeing vote returns
\* success = false with agreesCount = number of agreeing votes and
\* requiredCount = number of votes supplied.
C3_MustLocalSmallInputs ==
    (/\ call.op = "mustLocal"
     /\ \/ call.criteria = <<>>
        \/ Len(call.criteria) = 1 /\ call.criteria[1].agrees) =>
        /\ ~ret.threw
        /\ ~ret.value.success
        /\ ret.value.certificate.agreesCount = numAgreeing(call.criteria)
        /\ ret.value.certificate.requiredCount = Len(call.criteria)

C10_GroupsPartitionTheVotes ==
    (call.op = "detectViaBettiNumbers" /\ distinctIds(call.vertices)) =>
        /\ ~ret.threw
        /\ LET info == ret.value
               groups == info.partitionVertices
               members(g) == {groups[g][i] : i \in 1..Len(groups[g])}
           IN  /\ \A g, h \in 1..Len(groups) : g # h => members(g) \cap members(h) = {}
               /\ UNION {members(g) : g \in 1..Len(groups)}
                      = {call.vertices[i] : i \in 1..Len(call.vertices)}
               /\ \A g \in 1..Len(groups) : Cardinality(members(g)) = Len(groups[g])
               /\ info.partitionCount = info.bettiNumbers.beta_0
               /\ info.partitionCount = Len(groups)
               /\ info.partitionCount = Len(info.components)

C10_Witness ==
    /\ call.op = "detectViaBettiNumbers"
    /\ distinctIds(call.vertices)
    /\ ~ret.threw
    /\ Len(ret.value.partitionVertices) = 2
    /\ Len(ret.value.partitionVertices[1]) = 2
    /\ Len(ret.value.partitionVertices[2]) = 2

\* the three precondition failures of a recovery call
emptyPieces == Len(call.partitionCertificates) = 0

numInvalidPieces ==
    Cardinality({i \in 1..Len(call.partitionCertificates) : ~call.partitionCertificates[i].valid})

inconsistentPieces ==
    \E i, j \in 1..Len(call.partitionCertificates) :
        call.partitionCertificates[i].geometricType # call.partitionCertificates[j].geometricType

\* the original shape is in the catalogue and has no dual
noDualDeclared ==
    /\ call.originalType \in GeometricType
    /\ ~GEOMETRIC_SHAPES[call.originalType].isSelfDual
    /\ GEOMETRIC_SHAPES[call.originalType].dual = NoDual

\* C5: recoverFromPartition returns success = false, each case with its own
\* narrative and before any threshold computation, when the piece list is
\* empty, when some piece is invalid, or when the pieces do not all carry the
\* same shape identifier.
C5_PreconditionFailures ==
    (call.op = "recoverFromPartition"
       /\ (emptyPieces \/ numInvalidPieces > 0 \/ inconsistentPieces)) =>
        /\ ~ret.threw
        /\ ~ret.value.success
        /\ FracEq(ret.value.dualMapping.thresholdMapping, Frac(0, 1))
        /\ emptyPieces =>
              ret.value.recoveryProof = "Recovery failed: No partition certificates provided"
        /\ numInvalidPieces > 0 =>
              ret.value.recoveryProof =
                  "Recovery failed: Invalid certificates found: " \o ToString(numInvalidPieces)
        /\ (inconsistentPieces /\ numInvalidPieces = 0) =>
              ret.value.recoveryProof =
                  "Recovery failed: Inconsistent geometric types in partition certificates"

\* C6: every failing call of recoverFromPartition (empty piece list, invalid
\* piece, inconsistent piece shapes, no dual, original shape unknown to the
\* catalogue) returns normally with success = false and a certificate with no
\* votes, agreesCount = 0, requiredCount = 0 and valid = false.
C6_FailureShell ==
    (call.op = "recoverFromPartition"
       /\ (\/ emptyPieces \/ numInvalidPieces > 0 \/ inconsistentPieces
           \/ noDualDeclared \/ call.originalType \notin GeometricType)) =>
        /\ ~ret.threw
        /\ ~ret.value.success
        /\ ret.value.recoveredCertificate.vertices = <<>>
        /\ ret.value.recoveredCertificate.agreesCount = 0
        /\ ret.value.recoveredCertificate.requiredCount = 0
        /\ ~ret.value.recoveredCertificate.valid

recoverySucceeded ==
    call.op = "recoverFromPartition" /\ ~ret.threw /\ ret.value.success

\* the shape getDual yields for a catalogue shape that has a dual
dualOf(O) == IF O.isSelfDual THEN O ELSE GEOMETRIC_SHAPES[O.dual]

\* C7 as stated: in a successful recovery on O the unified threshold is
\* D.vertices / O.faces clamped to [0,1] when O is not self-dual and has dual
\* D, and O.threshold when O is self-dual.
C7_UnifiedThresholdAsStated ==
    recoverySucceeded =>
        LET O == GEOMETRIC_SHAPES[call.originalType]
            u == ret.value.recoveredCertificate.thresholdPercentage
        IN  IF O.isSelfDual THEN FracEq(u, O.threshold)
            ELSE FracEq(u, Clamp01(Frac(dualOf(O).vertices, O.faces)))

\* C7 amended: the unified threshold is O.threshold * D.vertices / O.faces
\* clamped to [0,1] when the dual D is a shape other than O, and O.threshold
\* unchanged when the dual of O is O itself (O self-dual, or O's declared dual
\* is O).
C7_UnifiedThreshold ==
    recoverySucceeded =>
        LET O == GEOMETRIC_SHAPES[call.originalType]
            D == dualOf(O)
            u == ret.value.recoveredCertificate.thresholdPercentage
        IN  IF D.type = O.type THEN FracEq(u, O.threshold)
            ELSE FracEq(u, Clamp01(FracMul(O.threshold, Frac(D.vertices, O.faces))))

C7_Witness ==
    /\ recoverySucceeded
    /\ call.originalType = "EIGHT_CELL"
    /\ ret.value.dualMapping.dual = "SIXTEEN_CELL"
    /\ FracEq(ret.value.recoveredCertificate.thresholdPercentage, Frac(1, 6))

RECURSIVE SumSeq(_)
SumSeq(xs) == IF xs = <<>> THEN 0 ELSE xs[1] + SumSeq(Tail(xs))

\* C8: in every successful recovery the recovered certificate has agreesCount
\* = sum of the pieces' agreesCount, requiredCount = ceil(T * u) with T the
\* sum of the pieces' vote-list lengths and u the unified threshold, and
\* valid exactly when agreesCount >= requiredCount.
C8_UnifiedCounts ==
    recoverySucceeded =>
        LET pieces == call.partitionCertificates
            cert == ret.value.recoveredCertificate
            T == SumSeq([i \in 1..Len(pieces) |-> Len(pieces[i].vertices)])
        IN  /\ cert.agreesCount = SumSeq([i \in 1..Len(pieces) |-> pieces[i].agreesCount])
            /\ IsCeiling(cert.requiredCount, T, cert.thresholdPercentage)
            /\ cert.valid <=> (cert.agreesCount >= cert.requiredCount)

C8_Witness ==
    /\ recoverySucceeded
    /\ Len(call.partitionCertificates) = 2
    /\ ret.value.recoveredCertificate.agreesCount = 2
    /\ ret.value.recoveredCertificate.requiredCount = 2
    /\ Len(ret.value.recoveredCertificate.vertices) = 4
    /\ ret.value.recoveredCertificate.valid

\* C9: for two piece certificates obtained by mustLocal on the two 2-vote
\* unanimously agreeing halves of a 4-vote set, with original shape CUBE:
\* detectViaBettiNumbers flags the 4-vote set as partitioned, both piece
\* verifications succeed, and recoverFromPartition returns success = true
\* with a certificate over all 4 votes, agreesCount = 4 and validity by the
\* dual-mapped threshold.
C9_CubeRecoveryScenario ==
    (/\ call.op = "recoverFromPartition"
     /\ call.originalType = "CUBE"
     /\ Len(call.votes) = 4
     /\ numAgreeing(call.votes) = 4
     /\ call.ends = <<2, 4>>
     /\ call.types = <<"TETRAHEDRON", "TETRAHEDRON">>) =>
        /\ detectViaBettiNumbers(call.votes).value.isPartitioned
        /\ mustLocal(pieceVotes(call.votes, call.ends, 1)).value.success
        /\ mustLocal(pieceVotes(call.votes, call.ends, 2)).value.success
        /\ ~ret.threw
        /\ ret.value.success
        /\ ret.value.recoveredCertificate.vertices = call.votes
        /\ ret.value.recoveredCertificate.agreesCount = 4
        /\ ret.value.recoveredCertificate.valid <=>
               (4 >= Ceil(4, mapThresholdViaDual(Frac(1, 2), "CUBE", "OCTAHEDRON").value))

(***************************************************************************)
(* C11 - C20                                                               *)
(***************************************************************************)
\* the vote lists of the pieces, one after the other
RECURSIVE concatVotes(_)
concatVotes(pieces) ==
    IF pieces = <<>> THEN <<>> ELSE Head(pieces).vertices \o concatVotes(Tail(pieces))

\* C11: every successfully recovered certificate carries the original shape
\* identifier and that shape's catalogue entry (not the dual's), the
\* concatenation of the pieces' vote lists, Betti numbers (1,0,0) and the
\* partition summary (not partitioned, 1 piece), whatever agreement values the
\* merged votes hold.
C11_RecoveredCertificateShape ==
    recoverySucceeded =>
        LET cert == ret.value.recoveredCertificate
        IN  /\ cert.geometricType = call.originalType
            /\ cert.shape = GEOMETRIC_SHAPES[call.originalType]
            /\ cert.vertices = concatVotes(call.partitionCertificates)
            /\ cert.vertices = call.votes
            /\ cert.hasBetti
            /\ cert.bettiNumbers = [beta_0 |-> 1, beta_1 |-> 0, beta_2 |-> 0]
            /\ cert.partitionInfo = [isPartitioned |-> FALSE, partitionCount |-> 1]

\* a successful recovery on a shape whose dual is another shape, from two
\* pieces whose merged votes hold both agreement values
C11_Witness ==
    /\ recoverySucceeded
    /\ call.originalType = "CUBE"
    /\ ret.value.dualMapping.dual = "OCTAHEDRON"
    /\ Len(call.partitionCertificates) = 2
    /\ bothValues(call.votes)
    /\ ret.value.recoveredCertificate.shape.type = "CUBE"
    /\ ret.value.recoveredCertificate.bettiNumbers.beta_0 = 1

validConsistentPieces == ~emptyPieces /\ numInvalidPieces = 0 /\ ~inconsistentPieces

Joined(vertices, edges, i) ==
    {j \in 1..Len(vertices) :
        \E k \in 1..Len(edges) :
            \/ edges[k].from = vertices[i] /\ edges[k].to = vertices[j]
            \/ edges[k].from = vertices[j] /\ edges[k].to = vertices[i]}

RECURSIVE Reach(_, _, _)
\* the least set holding `seen` and closed under Joined
Reach(vertices, edges, seen) ==
    LET more == seen \cup UNION {Joined(vertices, edges, i) : i \in seen}
    IN  IF more = seen THEN seen ELSE Reach(vertices, edges, more)

\* the number of connected components of the undirected graph
NumComponents(vertices, edges) ==
    Cardinality({Reach(vertices, edges, {i}) : i \in 1..Len(vertices)})

\* the graph without its self-loops and with each edge once, endpoints ordered
Simplified(edges) ==
    {<<Max(edges[k].from, edges[k].to), -Max(-edges[k].from, -edges[k].to)>> :
        k \in {k \in 1..Len(edges) : edges[k].from # edges[k].to}}

\* C13: calculateBettiNumbers returns beta_0 = the number of connected
\* components of the undirected graph on the given vertices, and (0,0,0) for
\* an empty vertex list; detectPartition is true exactly when beta_0 > 1 and
\* countPartitions returns beta_0, so the empty graph is not partitioned and
\* has 0 pieces.
C13_BettiZeroCountsComponents ==
    /\ call.op = "calculateBettiNumbers" =>
          /\ ret.value.beta_0 = NumComponents(call.vertices, call.edges)
          /\ Len(call.vertices) = 0 =>
                /\ ret.value = [beta_0 |-> 0, beta_1 |-> 0, beta_2 |-> 0]
                /\ ~detectPartition(ret.value)
                /\ countPartitions(ret.value) = 0
    /\ call.op = "detectPartition" => (ret.value <=> call.betti.beta_0 > 1)
    /\ call.op = "countPartitions" => ret.value = call.betti.beta_0

\* three vertices, a self-loop and the same edge twice: two components
C13_Witness ==
    /\ call.op = "calculateBettiNumbers"
    /\ Len(call.vertices) = 3
    /\ call.edges = <<[from |-> 1, to |-> 1], [from |-> 1, to |-> 2], [from |-> 2, to |-> 1]>>
    /\ ret.value.beta_0 = 2

\* C14: for every graph with at least one vertex, beta_1 = max(0, E - V +
\* beta_0) and beta_2 = 0, so beta_1 = E - V + 1 for a connected graph;
\* verifyBettiProperties accepts the triple calculateBettiNumbers returns for
\* the same vertices and edges.
C14_BettiOneEulerFormula ==
    /\ (call.op = "calculateBettiNumbers" /\ Len(call.vertices) >= 1) =>
          /\ ret.value.beta_1 =
                Max(0, Len(call.edges) - Len(call.vertices)
                       + NumComponents(call.vertices, call.edges))
          /\ ret.value.beta_1 = Max(0, Len(call.edges) - Len(call.vertices) + ret.value.beta_0)
          /\ ret.value.beta_2 = 0
          /\ NumComponents(call.vertices, call.edges) = 1 =>
                ret.value.beta_1 = Len(call.edges) - Len(call.vertices) + 1
    /\ (call.op = "verifyBettiProperties"
          /\ call.betti = calculateBettiNumbers(call.vertices, call.edges)) =>
          ret.value = TRUE

\* a triangle: connected, one cycle
C14_Witness ==
    /\ call.op = "calculateBettiNumbers"
    /\ Len(call.vertices) = 3
    /\ Cardinality(Simplified(call.edges)) = 3
    /\ ret.value = [beta_0 |-> 1, beta_1 |-> 1, beta_2 |-> 0]

\* some vote identifier occurs in more than one piece of the summary
sharedIdentifier(partitionVertices) ==
    \E p, q \in 1..Len(partitionVertices) :
        /\ p # q
        /\ \E i \in 1..Len(partitionVertices[p]), j \in 1..Len(partitionVertices[q]) :
              partitionVertices[p][i].id = partitionVertices[q][j].id

\* C15: validatePartitionDetection returns false, and does not throw, for
\* every partition summary in which some vote identifier occurs in more than
\* one piece.
C15_SharedIdentifierRejected ==
    (call.op = "validatePartitionDetection"
       /\ sharedIdentifier(call.partitionInfo.partitionVertices)) =>
        /\ ~ret.threw
        /\ ret.value = FALSE

\* a summary whose counts all agree and whose two pieces share an identifier
C15_Witness ==
    /\ call.op = "validatePartitionDetection"
    /\ call.partitionInfo.partitionCount = 2
    /\ call.partitionInfo.bettiNumbers.beta_0 = 2
    /\ Len(call.partitionInfo.components) = 2
    /\ Len(call.partitionInfo.partitionVertices) = 2
    /\ sharedIdentifier(call.partitionInfo.partitionVertices)
    /\ ~ret.threw
    /\ ret.value = FALSE

\* the keys of a shape's decomposition table, and the entry under a key
tableKeys(original) ==
    {decompositionMap[original][k][1] : k \in 1..Len(decompositionMap[original])}

tableEntry(original, key) ==
    decompositionMap[original][CHOOSE k \in 1..Len(decompositionMap[original]) :
                                   decompositionMap[original][k][1] = key][2]

hasTable == call.original \in DOMAIN decompositionMap

\* the piece count is above every key of the table
exceedsEveryKey == hasTable /\ \A key \in tableKeys(call.original) : key < call.partitionCount

\* the generic rule on v = floor(originalVertexCount / pieceCount)
genericRule(v) ==
    IF v >= 20 THEN "DODECAHEDRON"
    ELSE IF v >= 12 THEN "ICOSAHEDRON"
    ELSE IF v >= 8 THEN "CUBE"
    ELSE IF v >= 6 THEN "OCTAHEDRON"
    ELSE IF v >= 4 THEN "TETRAHEDRON"
    ELSE IF v >= 3 THEN "TRIANGLE"
    ELSE IF v >= 2 THEN "LINE"
    ELSE "POINT"

\* C16: when the table of the original shape has a key <= k,
\* decomposeGeometricType(original, k) returns the entry under the largest
\* such key; the key of the chosen entry is never above k.
C16_LargestKeyNotAbove ==
    (call.op = "decomposeGeometricType" /\ hasTable
       /\ \E key \in tableKeys(call.original) : key <= call.partitionCount) =>
        LET best == CHOOSE key \in tableKeys(call.original) :
                        /\ key <= call.partitionCount
                        /\ \A other \in tableKeys(call.original) :
                               other <= call.partitionCount => other <= key
        IN  /\ ~ret.threw
            /\ ret.value = tableEntry(call.original, best)
            /\ best <= call.partitionCount

\* five pieces of an icosahedron: the key 4 is taken, not 6
C16_Witness ==
    /\ call.op = "decomposeGeometricType"
    /\ call.original = "ICOSAHEDRON"
    /\ call.partitionCount = 5
    /\ ret.value = "TETRAHEDRON"

\* C17 as stated: when the piece count is above every key of the original
\* shape's table, the result is the generic rule applied to
\* floor(originalVertexCount / pieceCount).
C17_FallThroughAsStated ==
    (call.op = "decomposeGeometricType" /\ exceedsEveryKey) =>
        /\ ~ret.threw
        /\ ret.value = genericRule(GEOMETRIC_SHAPES[call.original].vertices
                                     \div call.partitionCount)

\* C17 amended: when the piece count is above every key of the original
\* shape's table, the result is the entry under the table's largest key; the
\* generic rule is reached only for an identifier without a table, and no
\* catalogue shape is without one, so the rule's shape lookup throws.
C17_LargestKeyWhenExceeded ==
    call.op = "decomposeGeometricType" =>
        /\ exceedsEveryKey =>
              /\ ~ret.threw
              /\ ret.value = tableEntry(call.original,
                                        CHOOSE key \in tableKeys(call.original) :
                                            \A other \in tableKeys(call.original) : other <= key)
        /\ ~hasTable =>
              /\ call.original \notin GeometricType
              /\ ret.threw
        /\ GeometricType \subseteq DOMAIN decompositionMap

\* five pieces of a truncated tetrahedron (12 vertices, keys 1, 2, 4): the
\* generic rule would give LINE
C17_Witness ==
    /\ call.op = "decomposeGeometricType"
    /\ call.original = "TRUNCATED_TETRAHEDRON"
    /\ call.partitionCount = 5
    /\ exceedsEveryKey
    /\ genericRule(GEOMETRIC_SHAPES[call.original].vertices \div call.partitionCount) = "LINE"
    /\ ret.value = "POINT"

\* the vote counts with a shape of their own
countToShape ==
    {<<1, "POINT">>, <<2, "LINE">>, <<3, "TRIANGLE">>, <<4, "TETRAHEDRON">>,
     <<5, "FIVE_CELL">>, <<6, "OCTAHEDRON">>, <<8, "CUBE">>, <<12, "ICOSAHEDRON">>,
     <<16, "EIGHT_CELL">>, <<20, "DODECAHEDRON">>, <<24, "TWENTY_FOUR_CELL">>,
     <<120, "SIX_HUNDRED_CELL">>}

\* `type` is the shape the claim gives for `count` votes
shapeForCount(count, type) ==
    IF \E pair \in countToShape : pair[1] = count
    THEN <<count, type>> \in countToShape
    ELSE type = "CUBE"

\* C18: the original shape reported by detectViaBettiNumbers depends on the
\* number of votes alone: the counts 1, 2, 3, 4, 5, 6, 8, 12, 16, 20, 24, 120
\* give their shapes and every other count, 0 included, gives CUBE; the
\* decomposed shape is set exactly when the vote set is partitioned.
C18_OriginalShapeFromCount ==
    /\ call.op = "inferGeometricType" => shapeForCount(call.vertexCount, ret.value)
    /\ call.op = "detectViaBettiNumbers" =>
          /\ ~ret.threw
          /\ shapeForCount(Len(call.vertices), ret.value.originalGeometricType)
          /\ (ret.value.decomposedGeometricType # NoDual) <=> ret.value.isPartitioned
          /\ ret.value.isPartitioned <=> (ret.value.bettiNumbers.beta_0 > 1)

\* three votes holding both agreement values: a triangle, partitioned, with
\* a decomposed shape
C18_Witness ==
    /\ call.op = "detectViaBettiNumbers"
    /\ Len(call.vertices) = 3
    /\ distinctIds(call.vertices)
    /\ ret.value.originalGeometricType = "TRIANGLE"
    /\ ret.value.isPartitioned
    /\ ret.value.decomposedGeometricType = "LINE"

\* C19: for every self-dual shape S and every threshold t,
\* mapThresholdViaDual(t, S, S) = t, and a successful recovery on S reports
\* dualMapping.dual = S with thresholdMapping = 1.0.
C19_SelfDualMapsToItself ==
    /\ (call.op = "mapThresholdViaDual"
          /\ call.original \in GeometricType
          /\ GEOMETRIC_SHAPES[call.original].isSelfDual
          /\ call.dual = call.original) =>
          /\ ~ret.threw
          /\ FracEq(ret.value, call.partitionThreshold)
    /\ (recoverySucceeded /\ GEOMETRIC_SHAPES[call.originalType].isSelfDual) =>
          /\ ret.value.dualMapping.dual = call.originalType
          /\ FracEq(ret.value.dualMapping.thresholdMapping, Frac(1, 1))

\* a successful recovery on the square, whose one face and four vertices
\* give a ratio other than 1
C19_Witness ==
    /\ recoverySucceeded
    /\ call.originalType = "SQUARE"
    /\ GEOMETRIC_SHAPES[call.originalType].isSelfDual
    /\ Len(call.partitionCertificates) = 2
    /\ ret.value.dualMapping.dual = "SQUARE"
    /\ FracEq(ret.value.dualMapping.thresholdMapping, Frac(1, 1))

\* C20: every catalogue shape of dimension 3 has vertices - edges + faces = 2.
C20_EulerFormula ==
    (call.op = "getGeometricShape" /\ ~ret.threw /\ ret.value.dimension = 3) =>
        ret.value.vertices - ret.value.edges + ret.value.faces = 2

\* the snub dodecahedron: 60 - 150 + 92
C20_Witness ==
    /\ call.op = "getGeometricShape"
    /\ call.type = "SNUB_DODECAHEDRON"
    /\ ~ret.threw
    /\ ret.value.dimension = 3
    /\ ret.value.vertices = 60
    /\ ret.value.edges = 150
    /\ ret.value.faces = 92

(***************************************************************************)
(* C21 - C30                                                               *)
(***************************************************************************)
\* the catalogue shape and the required count the claim states for each
\* convenience entry point
boundShape ==
    [mustLocal |-> <<"TETRAHEDRON", 4>>,
     shouldLocal |-> <<"OCTAHEDRON", 5>>,
     mayLocal |-> <<"CUBE", 4>>,
     mustFederation |-> <<"FIVE_CELL", 5>>,
     shouldFederation |-> <<"TWENTY_FOUR_CELL", 20>>,
     mayFederation |-> <<"EIGHT_CELL", 8>>,
     mustGlobal |-> <<"TRUNCATED_TETRAHEDRON", 12>>,
     shouldGlobal |-> <<"CUBOCTAHEDRON", 10>>,
     mayGlobal |-> <<"TRUNCATED_CUBE", 12>>]

withoutWeights(criteria) ==
    [i \in 1..Len(criteria) |-> [id |-> criteria[i].id, agrees |-> criteria[i].agrees]]

twoCalls == earlier.op = "verifyConsensus" /\ call.op = "verifyConsensus"

\* C22: two vote lists that differ only in the weight fields of their votes
\* give certificates with the same agreesCount, requiredCount and valid.
C22_WeightHasNoInfluence ==
    (/\ twoCalls
     /\ earlier.call.geometricType = call.geometricType
     /\ withoutWeights(earlier.call.criteria) = withoutWeights(call.criteria))
    => LET a == earlier.ret.value.certificate
           b == ret.value.certificate
       IN  /\ a.agreesCount = b.agreesCount
           /\ a.requiredCount = b.requiredCount
           /\ a.valid = b.valid

\* the same two votes for LINE, once without weights and once with an
\* agreeing vote of weight 3, which alone would reach the required 2
C22_Witness ==
    /\ twoCalls
    /\ call.geometricType = "LINE" /\ earlier.call.geometricType = "LINE"
    /\ earlier.call.criteria = <<[id |-> 1, agrees |-> TRUE], [id |-> 2, agrees |-> FALSE]>>
    /\ call.criteria = <<[id |-> 1, agrees |-> TRUE, weight |-> 3], [id |-> 2, agrees |-> FALSE]>>
    /\ ~ret.value.certificate.valid
    /\ ret.value.certificate.agreesCount = 1

\* a certificate without the two fields drawn from the environment
withoutStamp(certificate) ==
    [f \in DOMAIN certificate \ {"certificateId", "timestamp"} |-> certificate[f]]

earlierSteps(steps, k) == {steps[j].stepId : j \in 1..(k - 1)}

\* C24: createRecoveryPlan selects 'dual' for at most 4 piece certificates,
\* 'hierarchical' for 5 to 8 and 'federated' for more than 8, and each step's
\* dependencies name only steps that stand earlier in the plan's step list.
C24_StrategyAndDependencies ==
    (call.op = "createRecoveryPlan" /\ ~ret.threw) =>
        LET n == Len(call.partitionCertificates)
            plan == ret.value
        IN  /\ plan.recoveryStrategy = (IF n <= 4 THEN "dual"
                                        ELSE IF n <= 8 THEN "hierarchical"
                                        ELSE "federated")
            /\ \A k \in 1..Len(plan.recoverySteps) :
                  \A d \in 1..Len(plan.recoverySteps[k].dependencies) :
                      plan.recoverySteps[k].dependencies[d]
                          \in earlierSteps(plan.recoverySteps, k)

\* a plan for every catalogue shape; plans for 4, 5, 8 and 9 pieces
C24_Witness ==
    /\ call.op = "createRecoveryPlan"
    /\ call.originalType = "CUBE"
    /\ Len(call.partitionCertificates) = 9
    /\ ~ret.threw
    /\ ret.value.recoveryStrategy = "federated"
    /\ Len(ret.value.recoverySteps) = 3
    /\ ret.value.recoverySteps[3].dependencies = <<"fed-1", "fed-2">>

\* the originalType argument names a catalogue shape for which getDual yields a shape
originalHasDual ==
    /\ call.originalType \in GeometricType
    /\ \/ GEOMETRIC_SHAPES[call.originalType].isSelfDual
       \/ GEOMETRIC_SHAPES[call.originalType].dual # NoDual

\* C25: recoverFromPartition returns success = true exactly when the piece
\* list is non-empty, every piece is valid, all pieces carry one common shape
\* identifier and the originalType argument has a dual; neither the equality
\* of the pieces' identifier with originalType nor the validity of the
\* recovered certificate plays a part.
C25_SuccessCondition ==
    call.op = "recoverFromPartition" =>
        (recoverySucceeded <=> (validConsistentPieces /\ originalHasDual))

\* a successful recovery of a TETRAHEDRON from two POINT pieces holding a
\* disagreeing vote: the recovered certificate is not valid
C25_Witness ==
    /\ recoverySucceeded
    /\ call.originalType = "TETRAHEDRON"
    /\ Len(call.partitionCertificates) = 2
    /\ \A i \in 1..2 : call.partitionCertificates[i].geometricType = "POINT"
    /\ ~ret.value.recoveredCertificate.valid

\* C26: the certificate verifyConsensus returns for a catalogue shape and a
\* vote list is accepted by validateCertificate, and the same certificate
\* with only its agreesCount, only its requiredCount or only its valid flag
\* altered is rejected.
C26_IssuedAcceptedAlteredRejected ==
    call.op = "validateCertificate" =>
        /\ ~ret.threw
        /\ call.altered = "none" => ret.value = TRUE
        /\ call.altered \in {"agreesCount", "requiredCount", "valid"} => ret.value = FALSE

\* a valid CUBE certificate (4 of 4 agree) whose valid flag was cleared
C26_Witness ==
    /\ call.op = "validateCertificate"
    /\ call.geometricType = "CUBE"
    /\ call.altered = "valid"
    /\ call.certificate.agreesCount = 4
    /\ call.certificate.requiredCount = 4
    /\ ~call.certificate.valid
    /\ ret.value = FALSE

\* a validator call on a summary that the detector returned for call.vertices
validatesDetected == call.op = "validatePartitionDetection" /\ "vertices" \in DOMAIN call

\* C27: for a non-empty vote list with pairwise distinct identifiers,
\* validatePartitionDetection accepts the summary detectViaBettiNumbers
\* returns, whose component list has exactly beta_0 entries; for the empty
\* vote list the summary has partitionCount 0 and is rejected.
C27_DetectorSummaryValidates ==
    /\ (call.op = "detectViaBettiNumbers" /\ distinctIds(call.vertices)) => ~ret.threw
    /\ (validatesDetected /\ distinctIds(call.vertices)) =>
          IF Len(call.vertices) > 0
          THEN /\ ret = Return(TRUE)
               /\ Len(call.partitionInfo.components)
                      = call.partitionInfo.bettiNumbers.beta_0
          ELSE /\ call.partitionInfo.partitionCount = 0
               /\ ret = Return(FALSE)

\* four votes split two against two: two components, accepted
C27_Witness ==
    /\ validatesDetected
    /\ distinctIds(call.vertices)
    /\ Len(call.vertices) = 4
    /\ call.partitionInfo.isPartitioned
    /\ call.partitionInfo.bettiNumbers.beta_0 = 2
    /\ Len(call.partitionInfo.components) = 2
    /\ \A c \in 1..2 : Len(call.partitionInfo.partitionVertices[c]) = 2
    /\ ret = Return(TRUE)

\* C28: in the catalogue a shape S is flagged self-dual exactly when getDual(S)
\* is S itself, and whenever getDual(S) is a shape T, getDual(T) is S.
C28_DualRelationConsistent ==
    call.op = "getDual" =>
        /\ ~ret.threw
        /\ call.shape.isSelfDual <=> ret.value = [null |-> FALSE, shape |-> call.shape]
        /\ ~ret.value.null =>
              getDual(ret.value.shape) = Return([null |-> FALSE, shape |-> call.shape])

\* C29: votes received for a proposalId before the proposal itself are kept:
\* handling a received proposal, new or known, leaves every recorded vote list
\* as it was, and leaves a known proposal as it was.
C29_ProposalKeepsVotes ==
    [][ReceiveProposal =>
          /\ \A id \in DOMAIN consensusState.votes :
                /\ id \in DOMAIN consensusState'.votes
                /\ consensusState'.votes[id] = consensusState.votes[id]
          /\ \A id \in DOMAIN consensusState.proposals :
                consensusState'.proposals[id] = consensusState.proposals[id]]_vars

\* C30: a stored proposal whose status is 'achieved' or 'failed' keeps that
\* status, whatever is received afterwards.
C30_FinalStatusIsFinal ==
    [][\A id \in DOMAIN consensusState.proposals :
          consensusState.proposals[id].status \in {"achieved", "failed"} =>
              /\ id \in DOMAIN consensusState'.proposals
              /\ consensusState'.proposals[id].status
                     = consensusState.proposals[id].status]_vars

====
